---- MODULE Spec2Model ----
(***************************************************************************)
(* Model of the XML-to-flat-table transform of ssb-altinn-python           *)
(* (src/src/altinn/flatten.py, src/src/altinn/utils.py), of the table in   *)
(* table unpivoter (tabell_i_tabell.py), of xml_to_parquet and the insert  *)
(* of editing_state_tools.py, and of traverse_xml of parser.py.            *)
(*                                                                         *)
(* Python strings are sequences of one-character strings, so that find,    *)
(* replace, split, zfill and the marker regular expressions are computed   *)
(* on the text and not assumed.  A DataFrame is a record of its column     *)
(* labels (in order) and its rows (functions from column label to cell).   *)
(***************************************************************************)
EXTENDS Integers, Sequences, FiniteSets, TLC

\* ------------------------------------------------------------------------
\* Bounds of the model
\* ------------------------------------------------------------------------

\* nesting depth of the generated SkjemaData documents
MaxDepth == 3

\* largest number of occurrences of a repeated group in a generated document
MaxOcc == 2

\* largest number of rows of a table handed directly to a helper
MaxRows == 3

\* longest COUNTER list handed directly to _create_levels_col
MaxCounters == 3

\* the most outer instances of a table in table
MaxInstances == 2

\* the most rows of one outer instance
MaxInner == 3

\* the longest list of scalars in a document handed to _flatten_dict
MaxScalars == 3

\* the most directories of a path
MaxDirs == 2

\* the most digits of the fraction of a timestamp
MaxFraction == 9

\* the most leaves of an element handed to traverse_xml
MaxLeaves == 4

\* ------------------------------------------------------------------------
\* Python values
\* ------------------------------------------------------------------------

\* Python's None, and pandas' missing cell; neither is a text
None == << "None" >>
NaN == << "NaN" >>

\* str(None), as produced by astype(str)
NoneText == << "N", "o", "n", "e" >>

PyList(xs) == [type |-> "list", val |-> xs]
PyStr(s) == [type |-> "str", val |-> s]

Range(s) == { s[i] : i \in DOMAIN s }

RECURSIVE Concat(_)
\* "".join(parts)
Concat(parts) ==
    IF parts = << >> THEN << >> ELSE Head(parts) \o Concat(Tail(parts))

\* s[from:] of Python for 1-based from
Drop(s, from) == SubSeq(s, from, Len(s))

\* sub occurs in s at 1-based position i
MatchAt(s, sub, i) ==
    /\ i >= 1
    /\ i + Len(sub) - 1 <= Len(s)
    /\ SubSeq(s, i, i + Len(sub) - 1) = sub

\* str.find(sub, start) with 0-based start and 0-based result, -1 when absent
Find(s, sub, start) ==
    LET hits == { i \in (start + 1)..(Len(s) + 1) : MatchAt(s, sub, i) }
    IN  IF hits = {} THEN -1
        ELSE (CHOOSE i \in hits : \A j \in hits : i <= j) - 1

\* sub in s
Contains(s, sub) == Find(s, sub, 0) # -1

\* str.endswith(suffix)
EndsWith(s, suffix) ==
    Len(suffix) <= Len(s) /\ SubSeq(s, Len(s) - Len(suffix) + 1, Len(s)) = suffix

\* str.startswith(prefix)
StartsWith(s, prefix) == MatchAt(s, prefix, 1)

Digit(n) ==
    CASE n = 0 -> "0" [] n = 1 -> "1" [] n = 2 -> "2" [] n = 3 -> "3"
      [] n = 4 -> "4" [] n = 5 -> "5" [] n = 6 -> "6" [] n = 7 -> "7"
      [] n = 8 -> "8" [] n = 9 -> "9"

RECURSIVE Str(_)
\* str(n) for a natural number n
Str(n) == IF n < 10 THEN << Digit(n) >> ELSE Str(n \div 10) \o << Digit(n % 10) >>

RECURSIVE zfill(_, _)
\* str.zfill(width) on a text of digits
zfill(s, width) == IF Len(s) >= width THEN s ELSE zfill(<< "0" >> \o s, width)

\* ------------------------------------------------------------------------
\* The nested document produced by xmltodict.parse
\* ------------------------------------------------------------------------

Leaf(v) == [kind |-> "leaf", val |-> v, kids |-> << >>]
Map(items) == [kind |-> "map", val |-> << >>, kids |-> items]
List(elems) == [kind |-> "list", val |-> << >>, kids |-> elems]
Item(k, v) == [k |-> k, v |-> v]

\* d.get(key): the value under key, None when the key is absent
Get(d, key) ==
    LET hits == { i \in DOMAIN d.kids : d.kids[i].k = key }
    IN  IF hits = {} THEN Leaf(None) ELSE d.kids[CHOOSE i \in hits : TRUE].v

\* key in d
HasKey(d, key) == \E i \in DOMAIN d.kids : d.kids[i].k = key

\* ------------------------------------------------------------------------
\* dict(items): one entry per key, at the place of the key's first
\* occurrence and with the value of its last one
\* ------------------------------------------------------------------------

Dict(items) ==
    LET first == { i \in DOMAIN items :
                     \A j \in DOMAIN items : items[j][1] = items[i][1] => i <= j }
        RECURSIVE Build(_)
        Build(i) ==
            IF i > Len(items) THEN << >>
            ELSE IF i \in first
                 THEN LET last == CHOOSE j \in DOMAIN items :
                                    /\ items[j][1] = items[i][1]
                                    /\ \A l \in DOMAIN items :
                                         items[l][1] = items[i][1] => l <= j
                      IN  << << items[i][1], items[last][2] >> >> \o Build(i + 1)
                 ELSE Build(i + 1)
    IN  Build(1)

\* ------------------------------------------------------------------------
\* _flatten_dict
\* ------------------------------------------------------------------------

\* the marker with occurrences counted from 0
Marker_from_zero(counter) == << "£" >> \o Str(counter - 1) \o << "$" >>

\* "£" + str(counter) + "$", lines 64 and 73
Marker(counter) == << "£" >> \o Str(counter) \o << "$" >>

RECURSIVE _flatten_dict_per_scalar(_, _, _)
\* the flattening with every scalar of a list under a marked key of its own
_flatten_dict_per_scalar(d, parent_key, sep) ==
    LET new_key(k) == IF parent_key # << >> THEN parent_key \o sep \o k ELSE k
        OfList(k, v) ==
            Concat([ n \in DOMAIN v.kids |->
                IF v.kids[n].kind = "map"
                THEN _flatten_dict_per_scalar(v.kids[n], Marker(n) \o new_key(k), sep)
                ELSE << << Marker(n) \o new_key(k), v.kids[n].val >> >> ])
        OfItem(it) ==
            IF it.v.kind = "map"
            THEN _flatten_dict_per_scalar(it.v, Marker(1) \o new_key(it.k), sep)
            ELSE IF it.v.kind = "list"
                 THEN OfList(it.k, it.v)
                 ELSE << << new_key(it.k), it.v.val >> >>
    IN  Dict(Concat([ i \in DOMAIN d.kids |-> OfItem(d.kids[i]) ]))

RECURSIVE _flatten_dict(_, _, _)
_flatten_dict(d, parent_key, sep) ==
    LET new_key(k) == IF parent_key # << >> THEN parent_key \o sep \o k ELSE k
        \* the entries one list contributes; counter counts every element
        OfList(k, v) ==
            Concat([ n \in DOMAIN v.kids |->
                IF v.kids[n].kind = "map"
                THEN _flatten_dict(v.kids[n], Marker(n) \o new_key(k), sep)
                ELSE << << new_key(k), v >> >> ])
        OfItem(it) ==
            IF it.v.kind = "map"
            THEN _flatten_dict(it.v, Marker(1) \o new_key(it.k), sep)
            ELSE IF it.v.kind = "list"
                 THEN OfList(it.k, it.v)
                 ELSE << << new_key(it.k), it.v.val >> >>
    IN  Dict(Concat([ i \in DOMAIN d.kids |-> OfItem(d.kids[i]) ]))

\* ------------------------------------------------------------------------
\* _extract_counter and the marker-stripping replace
\* ------------------------------------------------------------------------

\* position of the first "$" at or after position i, 0 when there is none
NextDollar(s, i) ==
    LET hits == { j \in i..Len(s) : s[j] = "$" }
    IN  IF hits = {} THEN 0 ELSE CHOOSE j \in hits : \A l \in hits : j <= l

RECURSIVE FindMarkers(_, _)
\* re.findall(r"£(.*?)\$", value), scanning from position i
FindMarkers(value, i) ==
    IF i > Len(value) THEN << >>
    ELSE IF value[i] = "£" /\ NextDollar(value, i + 1) # 0
         THEN << SubSeq(value, i + 1, NextDollar(value, i + 1) - 1) >>
                \o FindMarkers(value, NextDollar(value, i + 1) + 1)
         ELSE FindMarkers(value, i + 1)

\* the markers of a path, the last one in the text first
_extract_counter_reversed(value) ==
    LET found == FindMarkers(value, 1)
    IN  [ n \in DOMAIN found |-> found[Len(found) + 1 - n] ]

_extract_counter(value) == FindMarkers(value, 1)

RECURSIVE StripMarkers(_, _)
\* re.sub(r"£.*?\$", "", value), scanning from position i
StripMarkers(value, i) ==
    IF i > Len(value) THEN << >>
    ELSE IF value[i] = "£" /\ NextDollar(value, i + 1) # 0
         THEN StripMarkers(value, NextDollar(value, i + 1) + 1)
         ELSE << value[i] >> \o StripMarkers(value, i + 1)

\* ------------------------------------------------------------------------
\* Texts the program uses
\* ------------------------------------------------------------------------

InternInfo == << "I", "n", "t", "e", "r", "n", "I", "n", "f", "o" >>
SkjemaData == << "S", "k", "j", "e", "m", "a", "D", "a", "t", "a" >>
Kontakt == << "K", "o", "n", "t", "a", "k", "t" >>
enhetsIdent == << "e", "n", "h", "e", "t", "s", "I", "d", "e", "n", "t" >>
enhetsType == << "e", "n", "h", "e", "t", "s", "T", "y", "p", "e" >>
delregNr == << "d", "e", "l", "r", "e", "g", "N", "r" >>
raNummer == << "r", "a", "N", "u", "m", "m", "e", "r" >>
ANGIVER_ID == << "A", "N", "G", "I", "V", "E", "R", "_", "I", "D" >>
XsiNil == << "@", "x", "s", "i", ":", "n", "i", "l" >>
FORM_STRING == << "/", "f", "o", "r", "m", "_" >>
DotXml == << ".", "x", "m", "l" >>
A3 == << "A", "3" >>
Underscore == << "_" >>

LowerCase == << "a", "b", "c", "d", "e", "f", "g", "h", "i", "j", "k", "l", "m",
                "n", "o", "p", "q", "r", "s", "t", "u", "v", "w", "x", "y", "z" >>
UpperCase == << "A", "B", "C", "D", "E", "F", "G", "H", "I", "J", "K", "L", "M",
                "N", "O", "P", "Q", "R", "S", "T", "U", "V", "W", "X", "Y", "Z" >>

\* str.upper()
upper(s) ==
    [ i \in DOMAIN s |->
        IF \E j \in DOMAIN LowerCase : LowerCase[j] = s[i]
        THEN UpperCase[CHOOSE j \in DOMAIN LowerCase : LowerCase[j] = s[i]]
        ELSE s[i] ]

RECURSIVE strip(_)
\* str.strip() of blanks
strip(s) ==
    IF s = << >> THEN s
    ELSE IF Head(s) = " " THEN strip(Tail(s))
    ELSE IF s[Len(s)] = " " THEN strip(SubSeq(s, 1, Len(s) - 1))
    ELSE s

\* str.replace("\n", " ")
ReplaceNewline(s) == [ i \in DOMAIN s |-> IF s[i] = "\n" THEN " " ELSE s[i] ]

\* astype(str) on a cell holding a text or None
astype_str(v) == IF v = None THEN NoneText ELSE v

\* ------------------------------------------------------------------------
\* DataFrames
\* ------------------------------------------------------------------------

\* pd.DataFrame()
EmptyFrame == [columns |-> << >>, rows |-> << >>]

Frame(columns, rows) == [columns |-> columns, rows |-> rows]

\* one row with the cells FELTNAVN and FELTVERDI
NameValueRow(name, value) ==
    [ c \in {"FELTNAVN", "FELTVERDI"} |-> IF c = "FELTNAVN" THEN name ELSE value ]

\* pd.DataFrame(pairs, columns=["FELTNAVN", "FELTVERDI"])
FrameOfPairs(pairs) ==
    Frame(<< "FELTNAVN", "FELTVERDI" >>,
          [ i \in DOMAIN pairs |-> NameValueRow(pairs[i][1], pairs[i][2]) ])

HasColumn(df, c) == c \in Range(df.columns)

\* pd.concat([a, b], ignore_index=True): the columns of a, then the new
\* columns of b; a cell of a column a frame lacks is NaN
concat(a, b) ==
    LET NotInA(c) == c \notin Range(a.columns)
        columns == a.columns \o SelectSeq(b.columns, NotInA)
        Widen(row) == [ c \in Range(columns) |->
                          IF c \in DOMAIN row THEN row[c] ELSE NaN ]
    IN  Frame(columns, [ i \in 1..(Len(a.rows) + Len(b.rows)) |->
                           IF i <= Len(a.rows) THEN Widen(a.rows[i])
                           ELSE Widen(b.rows[i - Len(a.rows)]) ])

\* df[c] = cells: a new column goes last, an existing one keeps its place
SetColumn(df, c, cells) ==
    Frame(IF HasColumn(df, c) THEN df.columns ELSE Append(df.columns, c),
          [ i \in DOMAIN df.rows |->
              [ x \in DOMAIN df.rows[i] \cup {c} |->
                  IF x = c THEN cells[i] ELSE df.rows[i][x] ] ])

\* df[c] = value, the same value in every row
SetColumnScalar(df, c, value) ==
    SetColumn(df, c, [ i \in DOMAIN df.rows |-> value ])

\* df.drop(cols, axis=1)
DropColumns(df, cols) ==
    LET Kept(c) == c \notin cols
    IN  Frame(SelectSeq(df.columns, Kept),
              [ i \in DOMAIN df.rows |->
                  [ c \in DOMAIN df.rows[i] \ cols |-> df.rows[i][c] ] ])

\* df[columns_order]
SelectColumns(df, columns_order) ==
    Frame(columns_order,
          [ i \in DOMAIN df.rows |->
              [ c \in Range(columns_order) |-> df.rows[i][c] ] ])

\* ------------------------------------------------------------------------
\* utils.is_valid_xml and the validation of flatten.py
\* ------------------------------------------------------------------------

\* what defusedxml.minidom.parseString raises on text that is not
\* well-formed: xml.parsers.expat.ExpatError, which is not a subclass of
\* xml.etree.ElementTree.ParseError
parseString_error == "ExpatError"

\* utils.is_gcs
is_gcs(file_path) == StartsWith(file_path, << "g", "s", ":", "/", "/" >>)

\* the exception classes an except clause for the class catches
Subclasses(class) ==
    IF class = "OSError" THEN {"OSError", "FileNotFoundError"} ELSE {class}

\* the exceptions is_valid_xml catches: ParseError in the branch for gs://
\* paths, ParseError and OSError in the branch for local paths
is_valid_xml_caught(gcs) ==
    IF gcs THEN Subclasses("ParseError")
    ELSE Subclasses("ParseError") \cup Subclasses("OSError")

\* is_valid_xml: "True", "False", or the name of the exception that
\* escapes it
is_valid_xml(file, file_path) ==
    LET thrown == IF ~file.exists THEN "FileNotFoundError"
                  ELSE IF ~file.wellformed THEN parseString_error
                  ELSE "none"
    IN  IF thrown = "none" THEN "True"
        ELSE IF thrown \in is_valid_xml_caught(is_gcs(file_path)) THEN "False"
        ELSE thrown

required_keys == << enhetsIdent, enhetsType, delregNr >>

\* xml_dict[root_element].get("InternInfo", {})
intern_info_of(root) == IF HasKey(root, InternInfo) THEN Get(root, InternInfo) ELSE Map(<< >>)

\* the missing_keys list of _validate_interninfo
missing_keys(root) ==
    LET Missing(key) == ~HasKey(intern_info_of(root), key)
    IN  SelectSeq(required_keys, Missing)

\* _validate_interninfo with a required_keys list that lacks delregNr
_validate_interninfo_two_keys(root) ==
    /\ HasKey(intern_info_of(root), enhetsIdent)
    /\ HasKey(intern_info_of(root), enhetsType)

\* _validate_interninfo: the keys are printed, the result is a boolean
_validate_interninfo(root) == missing_keys(root) = << >>

\* an exception: its class, the key names its message spells out, and the
\* file path its message spells out (empty when it names none)
Exception(type, keys, path) == [type |-> type, keys |-> keys, path |-> path]

NoException == Exception("none", << >>, << >>)

\* _validate_file: the exception it raises, NoException when it returns
_validate_file(file, file_path) ==
    LET valid == is_valid_xml(file, file_path)
    IN  IF valid = "False"
        THEN Exception("ValueError", << >>, << file_path >>)
        ELSE IF valid # "True"
        THEN Exception(valid, << >>, << >>)
        ELSE IF ~_validate_interninfo(file.root)
        THEN Exception("ValueError", required_keys, << file_path >>)
        ELSE NoException

\* ------------------------------------------------------------------------
\* Rows from the path and from the sidecar
\* ------------------------------------------------------------------------

\* the test of start_index against the length of FORM_STRING itself
_extract_angiver_id_off_by_one(file_path) ==
    LET start_index == Find(file_path, FORM_STRING, 0) + Len(FORM_STRING)
        end_index == Find(file_path, DotXml, start_index)
    IN  IF start_index > Len(FORM_STRING) /\ end_index # -1
        THEN SubSeq(file_path, start_index + 1, end_index)
        ELSE None

_extract_angiver_id(file_path) ==
    LET start_index == Find(file_path, FORM_STRING, 0) + Len(FORM_STRING)
        end_index == Find(file_path, DotXml, start_index)
    IN  IF start_index > Len(FORM_STRING) - 1 /\ end_index # -1
        THEN SubSeq(file_path, start_index + 1, end_index)
        ELSE None

_make_angiver_row_df(file_path) ==
    Frame(<< "FELTNAVN", "FELTVERDI" >>,
          << NameValueRow(ANGIVER_ID, _extract_angiver_id(file_path)) >>)

\* _make_meta_df for a sidecar without the key ALTINNTIDSPUNKTLEVERT: one
\* row per entry, the key in upper case
_make_meta_df(meta_dict) ==
    Frame(<< "FELTNAVN", "FELTVERDI" >>,
          [ i \in DOMAIN meta_dict |->
              NameValueRow(upper(meta_dict[i][1]), meta_dict[i][2]) ])

\* a value returned, or the exception raised instead
Returns(value) == [raises |-> "none", value |-> value]
Raises(exception) == [raises |-> exception, value |-> None]

\* _read_json_meta: the content of the sidecar file, None when the file
\* does not exist; json.load raises JSONDecodeError on a content that is
\* not JSON, which only the branch for gs:// paths catches
_read_json_meta(file_path, json_file) ==
    IF is_gcs(file_path)
    THEN IF json_file.exists
         THEN IF json_file.valid THEN Returns(json_file.content) ELSE Returns(None)
         ELSE Returns(None)
    ELSE IF json_file.exists
         THEN IF json_file.valid THEN Returns(json_file.content)
              ELSE Raises("JSONDecodeError")
         ELSE Returns(None)

\* _attach_metadata without the test of meta_dict
_attach_metadata_unguarded(file_path, json_file) ==
    LET meta_dict == _read_json_meta(file_path, json_file)
    IN  IF meta_dict.raises # "none" THEN meta_dict
        ELSE IF meta_dict.value = None THEN Raises("AttributeError")
        ELSE Returns(_make_meta_df(meta_dict.value))

_attach_metadata(file_path, json_file) ==
    LET meta_dict == _read_json_meta(file_path, json_file)
    IN  IF meta_dict.raises # "none" THEN meta_dict
        ELSE IF meta_dict.value # None /\ meta_dict.value # << >>
        THEN Returns(_make_meta_df(meta_dict.value)) ELSE Returns(EmptyFrame)

\* ------------------------------------------------------------------------
\* _parse_tag_elements
\* ------------------------------------------------------------------------

\* "if tag_data": a missing tag, an empty element and an empty mapping are
\* all skipped
Truthy(node) ==
    CASE node.kind = "leaf" -> node.val # None /\ node.val # << >>
      [] OTHER -> node.kids # << >>

RECURSIVE ConcatFrames(_)
\* pd.concat(dfs, ignore_index=True) if dfs else pd.DataFrame()
ConcatFrames(dfs) ==
    IF dfs = << >> THEN EmptyFrame
    ELSE IF Len(dfs) = 1 THEN dfs[1]
    ELSE concat(dfs[1], ConcatFrames(Tail(dfs)))

_parse_tag_elements(root, tag_list) ==
    LET Found(tag) == Truthy(Get(root, tag))
        tags == SelectSeq(tag_list, Found)
    IN  ConcatFrames([ i \in DOMAIN tags |->
            FrameOfPairs(_flatten_dict(Get(root, tags[i]), << >>, Underscore)) ])

\* ------------------------------------------------------------------------
\* Counter resolution
\* ------------------------------------------------------------------------

\* row.get("COUNTER", [])
CounterOf(row) == IF "COUNTER" \in DOMAIN row THEN row["COUNTER"] ELSE PyList(<< >>)

\* _create_levels_col without the cap at 2
_create_levels_col_uncapped(row) ==
    LET counter == CounterOf(row)
    IN  IF counter.type = "list" THEN Len(counter.val) ELSE 0

_create_levels_col(row) ==
    LET counter == CounterOf(row)
    IN  IF counter.type = "list" /\ Len(counter.val) > 1 THEN 2
        ELSE IF counter.type = "list" /\ Len(counter.val) = 1 THEN 1
        ELSE 0

\* _add_interninfo_columns once the four InternInfo keys have been read
\* the nil rows taken to be those named by the marker alone
_add_interninfo_columns_exact_nil(df, interninfo, file_path) ==
    LET df1 == SetColumnScalar(df, "IDENT_NR", Get(interninfo, enhetsIdent).val)
        df2 == SetColumnScalar(df1, "VERSION_NR", _extract_angiver_id(file_path))
        df3 == SetColumnScalar(df2, "DELREG_NR", Get(interninfo, delregNr).val)
        df4 == SetColumnScalar(df3, "ENHETS_TYPE", Get(interninfo, enhetsType).val)
        df5 == SetColumnScalar(df4, "SKJEMA_ID", Get(interninfo, raNummer).val \o A3)
        NotNil(row) == row["FELTNAVN"] # XsiNil
        df6 == Frame(df5.columns, SelectSeq(df5.rows, NotNil))
        df7 == SetColumn(df6, "COUNTER",
                   [ i \in DOMAIN df6.rows |->
                       PyList(_extract_counter(df6.rows[i]["FELTNAVN"])) ])
        df8 == SetColumn(df7, "FELTNAVN",
                   [ i \in DOMAIN df7.rows |->
                       strip(StripMarkers(df7.rows[i]["FELTNAVN"], 1)) ])
        df9 == IF HasColumn(df8, "FELTVERDI")
               THEN SetColumn(df8, "FELTVERDI",
                        [ i \in DOMAIN df8.rows |->
                            ReplaceNewline(astype_str(df8.rows[i]["FELTVERDI"])) ])
               ELSE df8
    IN  SetColumn(df9, "LEVELS",
            [ i \in DOMAIN df9.rows |-> _create_levels_col(df9.rows[i]) ])

_add_interninfo_columns(df, interninfo, file_path) ==
    LET df1 == SetColumnScalar(df, "IDENT_NR", Get(interninfo, enhetsIdent).val)
        df2 == SetColumnScalar(df1, "VERSION_NR", _extract_angiver_id(file_path))
        df3 == SetColumnScalar(df2, "DELREG_NR", Get(interninfo, delregNr).val)
        df4 == SetColumnScalar(df3, "ENHETS_TYPE", Get(interninfo, enhetsType).val)
        df5 == SetColumnScalar(df4, "SKJEMA_ID", Get(interninfo, raNummer).val \o A3)
        NotNil(row) == ~Contains(row["FELTNAVN"], XsiNil)
        df6 == Frame(df5.columns, SelectSeq(df5.rows, NotNil))
        df7 == SetColumn(df6, "COUNTER",
                   [ i \in DOMAIN df6.rows |->
                       PyList(_extract_counter(df6.rows[i]["FELTNAVN"])) ])
        df8 == SetColumn(df7, "FELTNAVN",
                   [ i \in DOMAIN df7.rows |->
                       strip(StripMarkers(df7.rows[i]["FELTNAVN"], 1)) ])
        df9 == IF HasColumn(df8, "FELTVERDI")
               THEN SetColumn(df8, "FELTVERDI",
                        [ i \in DOMAIN df8.rows |->
                            ReplaceNewline(astype_str(df8.rows[i]["FELTVERDI"])) ])
               ELSE df8
    IN  SetColumn(df9, "LEVELS",
            [ i \in DOMAIN df9.rows |-> _create_levels_col(df9.rows[i]) ])

\* a row for which _add_lopenr raises IndexError: a level without a counter
LopenrRaises(df) ==
    \E i \in DOMAIN df.rows :
        df.rows[i]["LEVELS"] > 0 /\ df.rows[i]["COUNTER"].val = << >>

\* the loop body with the test LEVELS == 1
add_lopenr_row_level_one(row) ==
    IF row["LEVELS"] = 1
    THEN LET last_counter_value == row["COUNTER"].val[Len(row["COUNTER"].val)]
         IN  [ row EXCEPT !["FELTNAVN"] =
                 @ \o Underscore \o zfill(last_counter_value, 3) ]
    ELSE row

\* the loop body reading COUNTER[0]
add_lopenr_row_first_counter(row) ==
    IF row["LEVELS"] > 0
    THEN [ row EXCEPT !["FELTNAVN"] =
             @ \o Underscore \o zfill(row["COUNTER"].val[1], 3) ]
    ELSE row

\* the body of the loop of _add_lopenr, lines 230-232
add_lopenr_row(row) ==
    IF row["LEVELS"] > 0
    THEN LET last_counter_value == row["COUNTER"].val[Len(row["COUNTER"].val)]
         IN  [ row EXCEPT !["FELTNAVN"] =
                 @ \o Underscore \o zfill(last_counter_value, 3) ]
    ELSE row

_add_lopenr(df) ==
    DropColumns(Frame(df.columns, [ i \in DOMAIN df.rows |-> add_lopenr_row(df.rows[i]) ]),
                {"COUNTER", "LEVELS"})

\* ------------------------------------------------------------------------
\* Checkbox expansion and renaming
\* ------------------------------------------------------------------------

RECURSIVE _split_string(_)
\* utils._split_string: the tokens between the commas of a value
_split_string(value) ==
    LET comma == Find(value, << "," >>, 0)
    IN  IF comma = -1 THEN << value >>
        ELSE << SubSeq(value, 1, comma) >> \o _split_string(Drop(value, comma + 2))

\* the default of new_value, line 243
DefaultNewValue == << "1" >>

\* new_row built from scratch instead of row.copy(): the submission columns
\* of the new row stay empty
new_row_without_copy(row, checkbox_var, value, unique_code, new_value) ==
    [ c \in DOMAIN row |->
        CASE c = "FELTNAVN" -> IF unique_code = FALSE THEN checkbox_var \o value ELSE value
          [] c = "FELTVERDI" -> new_value
          [] c \in {"COUNTER", "LEVELS"} -> row[c]
          [] OTHER -> NaN ]

\* new_row with a separator between the field name and the token
new_row_with_separator(row, checkbox_var, value, unique_code, new_value) ==
    [ row EXCEPT !["FELTNAVN"] = IF unique_code = FALSE
                                 THEN checkbox_var \o << "_" >> \o value ELSE value,
                 !["FELTVERDI"] = new_value ]

\* the row built for one token, lines 271-278
new_row(row, checkbox_var, value, unique_code, new_value) ==
    [ row EXCEPT !["FELTNAVN"] = IF unique_code = FALSE
                                 THEN checkbox_var \o value ELSE value,
                 !["FELTVERDI"] = new_value ]

_transform_checkbox_var(df, checkbox_var, unique_code, new_value) ==
    LET Matches(row) == row["FELTNAVN"] = checkbox_var
        Others(row) == row["FELTNAVN"] # checkbox_var
        checkbox_rows == SelectSeq(df.rows, Matches)
        NewRows(row) ==
            LET values == _split_string(row["FELTVERDI"])
            IN  [ j \in DOMAIN values |->
                    new_row(row, checkbox_var, values[j], unique_code, new_value) ]
    IN  IF \E i \in DOMAIN df.rows : Matches(df.rows[i])
        THEN Frame(df.columns,
                   SelectSeq(df.rows, Others)
                     \o Concat([ i \in DOMAIN checkbox_rows |-> NewRows(checkbox_rows[i]) ]))
        ELSE df

RECURSIVE TransformCheckboxVars(_, _, _)
\* the loop of isee_transform over checkbox_vars
TransformCheckboxVars(df, checkbox_vars, unique_code) ==
    IF checkbox_vars = << >> THEN df
    ELSE TransformCheckboxVars(
             _transform_checkbox_var(df, Head(checkbox_vars), unique_code, DefaultNewValue),
             Tail(checkbox_vars), unique_code)

RECURSIVE ReplaceAll(_, _, _)
\* str.replace(sub, new) on the text s
ReplaceAll(s, sub, new) ==
    IF Len(s) < Len(sub) THEN s
    ELSE IF MatchAt(s, sub, 1) THEN new \o ReplaceAll(Drop(s, Len(sub) + 1), sub, new)
    ELSE << s[1] >> \o ReplaceAll(Drop(s, 2), sub, new)

RECURSIVE ReplaceEach(_, _, _)
ReplaceEach(s, keys, mapping) ==
    IF keys = {} THEN s
    ELSE LET key == CHOOSE k \in keys : \A other \in keys : Len(k) >= Len(other)
         IN  ReplaceEach(ReplaceAll(s, key, mapping[key]), keys \ {key}, mapping)

\* the replacement done inside the names, as Series.str.replace does
ReplaceNames_in_text(df, mapping) ==
    SetColumn(df, "FELTNAVN",
        [ i \in DOMAIN df.rows |->
            ReplaceEach(df.rows[i]["FELTNAVN"], DOMAIN mapping, mapping) ])

\* the keys matched against the names as _add_lopenr will leave them
ReplaceNames_of_suffixed(df, mapping) ==
    SetColumn(df, "FELTNAVN",
        [ i \in DOMAIN df.rows |->
            IF add_lopenr_row(df.rows[i])["FELTNAVN"] \in DOMAIN mapping
            THEN mapping[add_lopenr_row(df.rows[i])["FELTNAVN"]]
            ELSE df.rows[i]["FELTNAVN"] ])

\* Series.replace(mapping): a name that is a key becomes the key's value
ReplaceNames(df, mapping) ==
    SetColumn(df, "FELTNAVN",
        [ i \in DOMAIN df.rows |->
            IF df.rows[i]["FELTNAVN"] \in DOMAIN mapping
            THEN mapping[df.rows[i]["FELTNAVN"]]
            ELSE df.rows[i]["FELTNAVN"] ])

columns_order == << "SKJEMA_ID", "DELREG_NR", "IDENT_NR", "ENHETS_TYPE",
                    "FELTNAVN", "FELTVERDI", "VERSION_NR" >>

\* ------------------------------------------------------------------------
\* transform_table_in_table
\* ------------------------------------------------------------------------

\* the lower-case letter of each upper-case letter
LowerOf ==
    [ c \in Range(UpperCase) |->
        LowerCase[CHOOSE j \in DOMAIN UpperCase : UpperCase[j] = c] ]

\* str.lower()
lower(s) == [ i \in DOMAIN s |-> IF s[i] \in DOMAIN LowerOf THEN LowerOf[s[i]] ELSE s[i] ]

\* str.split("_")[-1]: the text after the last "_", the whole text without one
LastSegment(s) ==
    LET marks == { i \in DOMAIN s : s[i] = "_" }
    IN  IF marks = {} THEN s
        ELSE Drop(s, (CHOOSE i \in marks : \A j \in marks : j <= i) + 1)

\* str[-3:]
LastThree(s) == IF Len(s) <= 3 THEN s ELSE Drop(s, Len(s) - 2)

DigitValue(c) ==
    CASE c = "0" -> 0 [] c = "1" -> 1 [] c = "2" -> 2 [] c = "3" -> 3
      [] c = "4" -> 4 [] c = "5" -> 5 [] c = "6" -> 6 [] c = "7" -> 7
      [] c = "8" -> 8 [] c = "9" -> 9

RECURSIVE astype_int(_)
\* astype(int) on a text of digits
astype_int(s) ==
    IF s = << >> THEN 0
    ELSE 10 * astype_int(SubSeq(s, 1, Len(s) - 1)) + DigitValue(s[Len(s)])

RECURSIVE Unique(_)
\* Series.unique(): the distinct values in order of first appearance
Unique(values) ==
    IF values = << >> THEN << >>
    ELSE LET rest == Unique(SubSeq(values, 1, Len(values) - 1))
             last == values[Len(values)]
         IN  IF last \in Range(rest) THEN rest ELSE Append(rest, last)

\* str.contains("|".join(fields), case=False): the pattern of an empty list
\* is the empty pattern, which every name contains
ContainsAnyField(name, fields) ==
    LET lowered == lower(name)
    IN  \/ fields = << >>
        \/ \E i \in DOMAIN fields : Contains(lowered, lower(fields[i]))

NamesOf(df) == [ i \in DOMAIN df.rows |-> df.rows[i]["FELTNAVN"] ]

\* df_row, lines 65-68
df_row_of(table_data, row_fields) ==
    LET Matches(row) == ContainsAnyField(row["FELTNAVN"], row_fields)
    IN  SelectSeq(SelectColumns(table_data, << "FELTNAVN", "FELTVERDI" >>).rows, Matches)

\* relevante_lopenr, line 69
relevante_lopenr_of(table_data, row_fields) ==
    LET df_row == df_row_of(table_data, row_fields)
    IN  Unique([ i \in DOMAIN df_row |-> LastSegment(df_row[i]["FELTNAVN"]) ])

\* df_meta, lines 61-64 and 70-72
df_meta_of(table_data, table_fields, row_fields) ==
    LET relevant == Range(relevante_lopenr_of(table_data, row_fields))
        Matches(row) ==
            /\ ContainsAnyField(row["FELTNAVN"], table_fields)
            /\ LastSegment(row["FELTNAVN"]) \in relevant
    IN  SelectSeq(SelectColumns(table_data, << "FELTNAVN", "FELTVERDI" >>).rows, Matches)

\* the FELTVERDI of the rows whose name ends with lopenr and contains felt,
\* lines 79-84 and 95-98
ValuesFor(rows, lopenr, felt) ==
    LET Matches(row) ==
            EndsWith(row["FELTNAVN"], lopenr) /\ Contains(row["FELTNAVN"], felt)
        hits == SelectSeq(rows, Matches)
    IN  [ i \in DOMAIN hits |-> hits[i]["FELTVERDI"] ]

\* the length of the shortest row field
max_length_of_shortest(row_data) ==
    CHOOSE n \in { Len(row_data[i]) : i \in DOMAIN row_data } :
        \A i \in DOMAIN row_data : n <= Len(row_data[i])

\* max_length, line 85
max_length_of(row_data) ==
    CHOOSE n \in { Len(row_data[i]) : i \in DOMAIN row_data } :
        \A i \in DOMAIN row_data : Len(row_data[i]) <= n

\* the columns of the frame test after lines 86-103: a column per row field,
\* padded with NaN to max_length, then a column for each table field that
\* has exactly one value for this lopenr (.item() raises ValueError on any
\* other number of values, and the field is skipped)
test_columns(table_data, table_fields, row_fields, lopenr) ==
    LET df_row == df_row_of(table_data, row_fields)
        df_meta == df_meta_of(table_data, table_fields, row_fields)
        row_data == [ i \in DOMAIN row_fields |-> ValuesFor(df_row, lopenr, row_fields[i]) ]
        max_length == max_length_of(row_data)
        HasItem(felt) == Len(ValuesFor(df_meta, lopenr, felt)) = 1
        with_item == SelectSeq(table_fields, HasItem)
        verdi == [ i \in DOMAIN with_item |-> ValuesFor(df_meta, lopenr, with_item[i])[1] ]
    IN  [ i \in DOMAIN row_fields |->
            [ variable |-> row_fields[i],
              values |-> [ j \in 1..max_length |->
                           IF j <= Len(row_data[i]) THEN row_data[i][j] ELSE NaN ] ] ]
        \o [ i \in DOMAIN with_item |->
            [ variable |-> with_item[i],
              values |-> [ j \in 1..max_length |-> verdi[i] ] ] ]

\* max(flattened_table_data["FELTNAVN"].str[-3:].astype(int)), line 106
max_lopenr(flattened_table_data) ==
    LET numbers == { astype_int(LastThree(flattened_table_data.rows[i]["FELTNAVN"])) :
                       i \in DOMAIN flattened_table_data.rows }
    IN  CHOOSE n \in numbers : \A m \in numbers : m <= n

\* current_count, lines 105-109
current_count_of(flattened_table_data, counter_starting_value) ==
    IF HasColumn(flattened_table_data, "FELTNAVN")
    THEN max_lopenr(flattened_table_data) + 1
    ELSE counter_starting_value

\* dynamic_list_rows, lines 110-122: the melt of test, column by column,
\* named variable + "_" + the zero-filled lopenr of the row
dynamic_list_rows_of(test, current_count) ==
    Frame(<< "FELTNAVN", "FELTVERDI" >>,
          Concat([ i \in DOMAIN test |->
              [ j \in DOMAIN test[i].values |->
                  NameValueRow(test[i].variable \o << "_" >>
                                 \o zfill(Str(current_count + j - 1), 3),
                               test[i].values[j]) ] ]))

\* Series.unique() returns an array
unique(df, column) ==
    [ type |-> "ndarray",
      values |-> Unique([ i \in DOMAIN df.rows |-> df.rows[i][column] ]) ]

\* next(x): x must be an iterator; an array is iterable but is no iterator
next(x) ==
    IF x.type = "iterator" /\ x.values # << >>
    THEN [ raises |-> "none", value |-> x.values[1] ]
    ELSE [ raises |-> IF x.type = "iterator" THEN "StopIteration" ELSE "TypeError",
           value |-> None ]

broadcast_columns == << "SKJEMA_ID", "DELREG_NR", "IDENT_NR", "ENHETS_TYPE", "VERSION_NR" >>

RECURSIVE AssignAll(_, _, _)
\* .assign(SKJEMA_ID=skjema_id) ... .assign(VERSION_NR=version_nr), lines 131-137
AssignAll(df, columns, values) ==
    IF columns = << >> THEN df
    ELSE AssignAll(SetColumnScalar(df, Head(columns), Head(values)),
                   Tail(columns), Tail(values))

\* ------------------------------------------------------------------------
\* create_isee_filename and xml_to_parquet
\* ------------------------------------------------------------------------

\* create_isee_filename: root.find(".//InternInfo/raNummer") is None when
\* the document has no such element, and ra_nummer_value is then read at
\* line 668 without having been assigned
create_isee_filename(file_path, file) ==
    IF ~file.exists THEN Raises("FileNotFoundError")
    ELSE IF ~file.wellformed THEN Raises("ParseError")
    ELSE LET intern_info == Get(file.root, InternInfo)
             found == HasKey(file.root, InternInfo) /\ HasKey(intern_info, raNummer)
         IN  IF ~found THEN Raises("UnboundLocalError")
             ELSE Returns(astype_str(Get(intern_info, raNummer).val) \o << "A", "3", "_" >>
                            \o astype_str(_extract_angiver_id(file_path))
                            \o << ".", "c", "s", "v" >>)

Kontakt_kontaktPerson ==
    << "K", "o", "n", "t", "a", "k", "t", "_",
       "k", "o", "n", "t", "a", "k", "t", "P", "e", "r", "s", "o", "n" >>

\* the prefixes of the names xml_to_parquet keeps, lines 55-61
kept_prefixes ==
    { SkjemaData \o << "_" >>, Kontakt \o << "_" >>, InternInfo \o << "_" >>,
      << "B", "r", "u", "k", "e", "r", "o", "p", "p", "l", "e", "v", "e", "l", "s", "e", "_" >>,
      << "T", "i", "d", "s", "b", "r", "u", "k", "_" >> }

\* the selection without the test of keep_contact_information
select_rows_with_contact(table, keep) ==
    LET Kept(row) == \E prefix \in kept_prefixes : StartsWith(row["FELTNAVN"], prefix)
    IN  Frame(table.columns, SelectSeq(table.rows, Kept))

\* lines 55-64: the rows of xml_transform that xml_to_parquet keeps
select_rows(table, keep) ==
    LET Kept(row) == \E prefix \in kept_prefixes : StartsWith(row["FELTNAVN"], prefix)
        NoContact(row) == ~StartsWith(row["FELTNAVN"], Kontakt_kontaktPerson)
        data == SelectSeq(table.rows, Kept)
    IN  Frame(table.columns, IF ~keep THEN SelectSeq(data, NoContact) ELSE data)

\* the name and the value of the one row that the frame of a sidecar read
\* as None holds: the index 0 and None
IndexZero == << "0" >>

\* lines 66-71: pd.DataFrame([json_content]).T.reset_index().rename(...)
json_content_frame(json_content) ==
    IF json_content = None
    THEN Frame(<< "FELTNAVN", "FELTVERDI" >>, << NameValueRow(IndexZero, None) >>)
    ELSE FrameOfPairs(json_content)

\* ------------------------------------------------------------------------
\* insert_or_save_data and insert_into_database
\* ------------------------------------------------------------------------

\* the values of a row in the columns keys
KeyTuple(row, keys) == [ i \in DOMAIN keys |-> row[keys[i]] ]

\* data.merge(existing[keys], on=keys, how="left", indicator=True): a row of
\* data once for each row of existing with its key tuple, marked "both", or
\* once marked "left_only" when no row of existing has its key tuple
merge_left(data_rows, existing_rows, keys) ==
    LET Marked(row, mark) ==
            [ c \in DOMAIN row \cup {"_merge"} |-> IF c = "_merge" THEN mark ELSE row[c] ]
        Matches(row) ==
            LET SameKey(other) == KeyTuple(other, keys) = KeyTuple(row, keys)
            IN  SelectSeq(existing_rows, SameKey)
    IN  Concat([ i \in DOMAIN data_rows |->
            IF Matches(data_rows[i]) = << >>
            THEN << Marked(data_rows[i], << "left_only" >>) >>
            ELSE [ j \in DOMAIN Matches(data_rows[i]) |->
                     Marked(data_rows[i], << "both" >>) ] ])

\* every row of the merge, whatever its mark
new_data_of_every_row(data_rows, existing_rows, keys) ==
    merge_left(data_rows, existing_rows, keys)

\* new_data = data[data["_merge"] == "left_only"]
new_data_of(data_rows, existing_rows, keys) ==
    LET LeftOnly(row) == row["_merge"] = << "left_only" >>
    IN  SelectSeq(merge_left(data_rows, existing_rows, keys), LeftOnly)

\* ------------------------------------------------------------------------
\* The sidecar path, _pad_microseconds_to_six and ParseSingleXml.traverse_xml
\* ------------------------------------------------------------------------

form_ == << "f", "o", "r", "m", "_" >>
meta_ == << "m", "e", "t", "a", "_" >>
DotJson == << ".", "j", "s", "o", "n" >>

\* _read_json_meta, line 399:
\* file_path.replace("form_", "meta_").replace(".xml", ".json")
json_file_path(file_path) ==
    ReplaceAll(ReplaceAll(file_path, form_, meta_), DotXml, DotJson)

\* the shortest prefix of s that ends before a character of the set stops,
\* the whole of s when it holds none
UpTo(s, stops) ==
    LET hits == { i \in DOMAIN s : s[i] \in stops }
    IN  IF hits = {} THEN s
        ELSE SubSeq(s, 1, (CHOOSE i \in hits : \A j \in hits : i <= j) - 1)

SixZeros == << "0", "0", "0", "0", "0", "0" >>

\* the fraction padded with zeros and never cut
_pad_microseconds_to_six_without_cut(date_str) ==
    IF Contains(date_str, << "." >>)
    THEN LET before_dot == UpTo(date_str, {"."})
             after_dot == Drop(date_str, Len(before_dot) + 2)
             fractional == UpTo(after_dot, {"Z", "+", "-"})
             suffix == Drop(after_dot, Len(fractional) + 1)
         IN  IF fractional = after_dot THEN Raises("ValueError")
             ELSE Returns(before_dot \o << "." >>
                            \o (IF Len(fractional) < 6
                                THEN SubSeq(fractional \o SixZeros, 1, 6)
                                ELSE fractional)
                            \o suffix)
    ELSE Returns(ReplaceAll(date_str, << "Z" >>, << "." >> \o SixZeros \o << "Z" >>))

\* _pad_microseconds_to_six: re.split(r"[Z+-]", after_dot, maxsplit=1) gives
\* one part only when after_dot holds none of Z, + and -, and the unpacking
\* of line 308 then raises ValueError
_pad_microseconds_to_six(date_str) ==
    IF Contains(date_str, << "." >>)
    THEN LET before_dot == UpTo(date_str, {"."})
             after_dot == Drop(date_str, Len(before_dot) + 2)
             fractional == UpTo(after_dot, {"Z", "+", "-"})
             suffix == Drop(after_dot, Len(fractional) + 1)
         IN  IF fractional = after_dot THEN Raises("ValueError")
             ELSE Returns(before_dot \o << "." >>
                            \o SubSeq(fractional \o SixZeros, 1, 6) \o suffix)
    ELSE Returns(ReplaceAll(date_str, << "Z" >>, << "." >> \o SixZeros \o << "Z" >>))

\* a Python dict as the sequence of its (key, value) pairs in insertion order
DictHas(d, key) == \E i \in DOMAIN d : d[i][1] = key
DictGet(d, key) == d[CHOOSE i \in DOMAIN d : d[i][1] = key][2]

\* d[key] = value: in place for a key of d, at the end for a new one
DictSet(d, key, value) ==
    IF DictHas(d, key)
    THEN [ i \in DOMAIN d |-> IF d[i][1] = key THEN << key, value >> ELSE d[i] ]
    ELSE Append(d, << key, value >>)

\* del d[key]
DictDel(d, key) ==
    LET Other(pair) == pair[1] # key
    IN  SelectSeq(d, Other)

RECURSIVE NumberColumns(_, _, _, _)
\* parser.py, lines 82-84: data[f"{full_tag_name}_{i}"] = value for the
\* values from the i-th on
NumberColumns(data, full_tag_name, values, i) ==
    IF i > Len(values) THEN data
    ELSE NumberColumns(
             DictSet(data, full_tag_name \o Underscore \o Str(i), PyStr(values[i])),
             full_tag_name, values, i + 1)

\* parser.py, lines 70-86: what one element without children does to data
traverse_leaf(data, full_tag_name, text) ==
    LET stored ==
            IF DictHas(data, full_tag_name)
            THEN IF DictGet(data, full_tag_name).type = "list"
                 THEN DictSet(data, full_tag_name,
                              PyList(Append(DictGet(data, full_tag_name).val, text)))
                 ELSE DictSet(data, full_tag_name,
                              PyList(<< DictGet(data, full_tag_name).val, text >>))
            ELSE DictSet(data, full_tag_name, PyStr(text))
    IN  IF DictGet(stored, full_tag_name).type = "list"
        THEN DictDel(NumberColumns(stored, full_tag_name,
                                   DictGet(stored, full_tag_name).val, 1),
                     full_tag_name)
        ELSE stored

RECURSIVE recursive_traverse(_, _, _, _)
\* parser.py, lines 57-86, from the i-th child of element on; an element is
\* a mapping node whose items are its children in document order, a child
\* without children of its own being a leaf that holds its text
recursive_traverse(element, data, prefix, i) ==
    IF i > Len(element.kids) THEN data
    ELSE LET sub_element == element.kids[i]
             full_tag_name == IF prefix # << >>
                              THEN prefix \o Underscore \o sub_element.k
                              ELSE sub_element.k
         IN  recursive_traverse(element,
                 IF Len(sub_element.v.kids) > 0
                 THEN recursive_traverse(sub_element.v, data, full_tag_name, 1)
                 ELSE traverse_leaf(data, full_tag_name, sub_element.v.val),
                 prefix, i + 1)

RECURSIVE traverse_children(_, _, _)
\* parser.py, lines 88-89, from the i-th child of the root on
traverse_children(element, data, i) ==
    IF i > Len(element.kids) THEN data
    ELSE traverse_children(element,
             recursive_traverse(element.kids[i].v, data, element.kids[i].k, 1),
             i + 1)

\* ParseSingleXml.traverse_xml(element) of parser.py with data left at None
traverse_xml(element) == traverse_children(element, << >>, 1)

\* ------------------------------------------------------------------------
\* Inputs: documents, files, paths and arguments
\* ------------------------------------------------------------------------

Some(v) == [some |-> TRUE, val |-> v]
Nothing == [some |-> FALSE, val |-> << >>]

KeyA == << "a" >>
KeyB == << "b" >>
KeyAB == << "a", "_", "b" >>
KeyBA == << "b", "_", "a" >>

RECURSIVE Maps(_)
\* the mappings xmltodict can return for an element nested at most d deep: a
\* group that occurs once is a mapping, one that occurs n >= 2 times is a
\* list of n mappings
Maps(d) ==
    IF d = 0 THEN {}
    ELSE LET sub == Maps(d - 1)
             values == {Leaf(<< "x" >>)} \cup sub
                         \cup { List([ i \in 1..n |-> m ]) : m \in sub, n \in 2..MaxOcc }
         IN  { Map(<< Item(KeyA, v) >>) : v \in values }
               \cup { Map(<< Item(KeyA, v), Item(KeyB, Leaf(<< "y" >>)) >>) : v \in values }

\* two leaves with the same "_"-joined tag path
CollisionDoc ==
    Map(<< Item(KeyA, Map(<< Item(KeyBA, Leaf(<< "x" >>)) >>)),
           Item(KeyAB, Map(<< Item(KeyA, Leaf(<< "y" >>)) >>)) >>)

GeneratedDocs == Maps(MaxDepth) \cup {CollisionDoc}

\* documents with a multi-select value "x,y"
FixtureFlat ==
    Map(<< Item(KeyA, Leaf(<< "x" >>)), Item(KeyB, Leaf(<< "x", ",", "y" >>)) >>)

FixtureNested ==
    Map(<< Item(KeyA, Map(<< Item(KeyB, Leaf(<< "x", ",", "y" >>)) >>)),
           Item(KeyB, Leaf(<< "x" >>)) >>)

FixtureRepeated ==
    Map(<< Item(KeyA, List(<< Map(<< Item(KeyB, Leaf(<< "x", ",", "y" >>)) >>),
                              Map(<< Item(KeyB, Leaf(<< "y" >>)) >>) >>)) >>)

FixtureDocs == {FixtureFlat, FixtureNested, FixtureRepeated}

InternInfoValue(key) ==
    CASE key = enhetsIdent -> << "9" >>
      [] key = enhetsType -> << "B" >>
      [] key = delregNr -> << "2" >>
      [] key = raNummer -> << "R" >>

AllInternInfoKeys == << enhetsIdent, enhetsType, delregNr, raNummer >>

\* the InternInfo section holding the keys of the set present
InternInfoWith(present) ==
    LET Present(key) == key \in present
        keys == SelectSeq(AllInternInfoKeys, Present)
    IN  Map([ i \in DOMAIN keys |-> Item(keys[i], Leaf(InternInfoValue(keys[i]))) ])

FullInternInfo == InternInfoWith(Range(AllInternInfoKeys))

KontaktDoc == Map(<< Item(KeyA, Leaf(<< "k" >>)) >>)

\* the mapping under the root element
RootWith(interninfo, skjemadata) ==
    Map(<< Item(InternInfo, interninfo), Item(SkjemaData, skjemadata),
           Item(Kontakt, KontaktDoc) >>)

RootWithoutInternInfo(skjemadata) ==
    Map(<< Item(SkjemaData, skjemadata), Item(Kontakt, KontaktDoc) >>)

XmlFile(root) == [exists |-> TRUE, wellformed |-> TRUE, root |-> root]
MissingFile == [exists |-> FALSE, wellformed |-> FALSE, root |-> Map(<< >>)]
MalformedFile == [exists |-> TRUE, wellformed |-> FALSE, root |-> Map(<< >>)]

JsonFile(content) == [exists |-> TRUE, valid |-> TRUE, content |-> content]
NoJsonFile == [exists |-> FALSE, valid |-> FALSE, content |-> << >>]
\* a sidecar file whose content is not JSON
InvalidJsonFile == [exists |-> TRUE, valid |-> FALSE, content |-> << >>]
\* a sidecar file holding {}
EmptyJsonFile == JsonFile(<< >>)

SidecarDict == << << << "r", "e", "f" >>, << "5" >> >> >>

PathWithForm == << "d", "/", "f", "o", "r", "m", "_", "7", ".", "x", "m", "l" >>
PathWithoutForm == << "7", ".", "x", "m", "l" >>

GcsPath == << "g", "s", ":", "/", "/", "b", "/", "f", "o", "r", "m", "_", "7", ".", "x", "m", "l" >>

FilePaths == {PathWithForm, PathWithoutForm, GcsPath}

NoMapping == [ n \in {} |-> << >> ]

Mappings ==
    { Nothing, Some([ n \in {KeyA} |-> << "c" >> ]),
      Some([ n \in {KeyB \o << "x" >>, KeyAB} |-> << "c" >> ]),
      Some([ n \in {KeyAB \o << "_", "0", "0", "1" >>} |-> << "c" >> ]) }

TagLists == { Nothing, Some(<< SkjemaData, Kontakt >>), Some(<< << "Z" >> >>) }

CheckboxVarLists == { Nothing, Some(<< KeyB >>), Some(<< KeyAB, KeyB >>) }

\* the files of the calls with varied arguments
VariedFiles ==
    {MissingFile, MalformedFile}
      \cup { XmlFile(RootWithoutInternInfo(d)) : d \in FixtureDocs }
      \cup { XmlFile(RootWith(InternInfoWith(present), d)) :
               present \in SUBSET Range(AllInternInfoKeys), d \in FixtureDocs }

\* the files of the calls with default arguments
DefaultFiles ==
    {MissingFile, MalformedFile}
      \cup { XmlFile(RootWith(FullInternInfo, d)) : d \in GeneratedDocs }

\* ------------------------------------------------------------------------
\* State
\* ------------------------------------------------------------------------

VARIABLES
    entry,          \* the function called: "isee_transform" or "xml_transform"
    file_path,      \* its argument file_path
    mapping,        \* its argument mapping
    tag_list,       \* its argument tag_list
    checkbox_vars,  \* its argument checkbox_vars
    unique_code,    \* its argument unique_code
    new_value,      \* the argument new_value of _transform_checkbox_var
    xml_file,       \* the file at file_path
    json_file,      \* the file at the sidecar path
    pc,             \* the statement the call has reached
    final_df,       \* the local final_df of the call
    raised,         \* the exception that ended the call, NoException if none
    table_data,             \* transform_table_in_table: its argument table_data
    rest_of_data,           \* its argument rest_of_data
    table_fields,           \* its argument table_fields
    row_fields,             \* its argument row_fields
    counter_starting_value, \* its argument counter_starting_value
    relevante_lopenr,       \* the part of relevante_lopenr the loop has yet to visit
    flattened_table_data,   \* its local flattened_table_data
    database,       \* the rows of the table behind self.conn
    data,           \* insert_or_save_data / insert_into_database: the argument data
    insert_calls,   \* the number of calls of self.conn.insert
    keep_contact_information, \* xml_to_parquet: its argument
    destination_folder,       \* xml_to_parquet: its argument
    filename,       \* the value create_isee_filename returned, None before
    written,        \* the table xml_to_parquet wrote, an empty frame before
    argument,       \* the argument of a helper that is called on its own
    return_value    \* the value that helper returned, None before

\* the arguments and files of a call of flatten.py; argument and return_value
\* belong to the calls of single helpers, which no other call touches
call_args == << entry, file_path, mapping, tag_list, checkbox_vars, unique_code,
                new_value, xml_file, json_file, argument, return_value >>

table_args == << table_data, rest_of_data, table_fields, row_fields,
                 counter_starting_value >>

table_locals == << relevante_lopenr, flattened_table_data >>

store_vars == << database, data, insert_calls >>

parquet_vars == << keep_contact_information, destination_folder, filename, written >>

vars == << call_args, pc, final_df, raised, table_args, table_locals,
           store_vars, parquet_vars >>

\* what a step of isee_transform, xml_transform or a helper leaves alone
inputs == << call_args, table_args, table_locals, store_vars, parquet_vars >>

\* no call of transform_table_in_table is under way
NoTableCall ==
    /\ table_data = EmptyFrame
    /\ rest_of_data = EmptyFrame
    /\ table_fields = << >>
    /\ row_fields = << >>
    /\ counter_starting_value = 1
    /\ relevante_lopenr = << >>
    /\ flattened_table_data = EmptyFrame

\* no store is connected
NoStore ==
    /\ database = << >>
    /\ data = EmptyFrame
    /\ insert_calls = 0

\* none of the single functions of the last specification is called
NoHelperCall ==
    /\ argument = << >>
    /\ return_value = None

\* no file name was made and no file written
NothingWritten ==
    /\ keep_contact_information = FALSE
    /\ destination_folder = << >>
    /\ filename = None
    /\ written = EmptyFrame

Init ==
    /\ \/ /\ entry = "isee_transform"
          /\ xml_file \in VariedFiles
          /\ file_path \in FilePaths
          /\ json_file \in {NoJsonFile, JsonFile(SidecarDict), EmptyJsonFile, InvalidJsonFile}
          /\ mapping \in Mappings
          /\ tag_list \in TagLists
          /\ checkbox_vars \in CheckboxVarLists
          /\ unique_code \in BOOLEAN
       \/ /\ entry \in {"isee_transform", "xml_transform"}
          /\ xml_file \in DefaultFiles
          /\ file_path = PathWithForm
          /\ json_file = NoJsonFile
          /\ mapping = Nothing
          /\ tag_list = Nothing
          /\ checkbox_vars = Nothing
          /\ unique_code = FALSE
    /\ new_value = DefaultNewValue
    /\ pc = IF entry = "isee_transform" THEN "validate" ELSE "xml_check"
    /\ final_df = EmptyFrame
    /\ raised = NoException
    /\ NoTableCall
    /\ NoStore
    /\ NothingWritten
    /\ NoHelperCall

Raise(exception) ==
    /\ raised' = exception
    /\ pc' = "raised"
    /\ UNCHANGED final_df

Goto(target, df) ==
    /\ pc' = target
    /\ final_df' = df
    /\ UNCHANGED raised

\* isee_transform, line 549
Validate ==
    /\ pc = "validate"
    /\ LET exception == _validate_file(xml_file, file_path)
       IN  IF exception # NoException THEN Raise(exception)
           ELSE Goto("parse", final_df)
    /\ UNCHANGED inputs

\* the tag_list in force after the defaults of lines 553-554
TagListInForce == IF tag_list.some THEN tag_list.val ELSE << SkjemaData >>

\* isee_transform, lines 550-559
ParseTagElements ==
    /\ pc = "parse"
    /\ IF \E i \in DOMAIN TagListInForce :
            /\ Truthy(Get(xml_file.root, TagListInForce[i]))
            /\ Get(xml_file.root, TagListInForce[i]).kind # "map"
       THEN Raise(Exception("AttributeError", << >>, << >>))
       ELSE Goto("metadata", _parse_tag_elements(xml_file.root, TagListInForce))
    /\ UNCHANGED inputs

\* isee_transform, lines 561-563
AttachMetadata ==
    /\ pc = "metadata"
    /\ LET metadata == _attach_metadata(file_path, json_file)
       IN  IF metadata.raises # "none"
           THEN Raise(Exception(metadata.raises, << >>, << >>))
           ELSE Goto("angiver", concat(final_df, metadata.value))
    /\ UNCHANGED inputs

\* isee_transform, line 565
AngiverRow ==
    /\ pc = "angiver"
    /\ Goto("interninfo", concat(final_df, _make_angiver_row_df(file_path)))
    /\ UNCHANGED inputs

\* isee_transform, line 567
AddInterninfoColumns ==
    /\ pc = "interninfo"
    /\ LET interninfo == Get(xml_file.root, InternInfo)
           Absent(key) == ~HasKey(interninfo, key)
           absent == SelectSeq(<< enhetsIdent, delregNr, enhetsType, raNummer >>, Absent)
       IN  IF absent # << >>
           THEN Raise(Exception("KeyError", << absent[1] >>, << >>))
           ELSE Goto("checkbox", _add_interninfo_columns(final_df, interninfo, file_path))
    /\ UNCHANGED inputs

\* isee_transform, lines 569-571
TransformCheckbox ==
    /\ pc = "checkbox"
    /\ Goto("mapping",
            IF checkbox_vars.some
            THEN TransformCheckboxVars(final_df, checkbox_vars.val, unique_code)
            ELSE final_df)
    /\ UNCHANGED inputs

\* isee_transform, lines 550-551 and 573-574
ApplyMapping ==
    /\ pc = "mapping"
    /\ Goto("lopenr",
            ReplaceNames(final_df, IF mapping.some THEN mapping.val ELSE NoMapping))
    /\ UNCHANGED inputs

\* isee_transform, line 576
AddLopenr ==
    /\ pc = "lopenr"
    /\ IF LopenrRaises(final_df)
       THEN Raise(Exception("IndexError", << >>, << >>))
       ELSE Goto("reorder", _add_lopenr(final_df))
    /\ UNCHANGED inputs

\* isee_transform, lines 578-590
ReorderColumns ==
    /\ pc = "reorder"
    /\ IF \E i \in DOMAIN columns_order : ~HasColumn(final_df, columns_order[i])
       THEN Raise(Exception("KeyError", << >>, << >>))
       ELSE Goto("returned", SelectColumns(final_df, columns_order))
    /\ UNCHANGED inputs

\* xml_transform, lines 611 and 633-635
XmlCheck ==
    /\ pc = "xml_check"
    /\ LET valid == is_valid_xml(xml_file, file_path)
       IN  IF valid = "True" THEN Goto("xml_flatten", final_df)
           ELSE IF valid = "False"
                THEN Raise(Exception("ValueError", << >>, << file_path >>))
                ELSE Raise(Exception(valid, << >>, << >>))
    /\ UNCHANGED inputs

\* the table xml_transform builds, lines 613-631
xml_transform_table(root) ==
    LET df == FrameOfPairs(_flatten_dict(root, << >>, Underscore))
        Reverse(s) == [ i \in DOMAIN s |-> s[Len(s) + 1 - i] ]
        df1 == SetColumn(df, "LEVEL",
                   [ i \in DOMAIN df.rows |->
                       PyList(Reverse(_extract_counter(df.rows[i]["FELTNAVN"]))) ])
    IN  SetColumn(df1, "FELTNAVN",
            [ i \in DOMAIN df1.rows |-> StripMarkers(df1.rows[i]["FELTNAVN"], 1) ])

\* xml_transform, lines 613-631
XmlFlatten ==
    /\ pc = "xml_flatten"
    /\ Goto("returned", xml_transform_table(xml_file.root))
    /\ UNCHANGED inputs

Next ==
    \/ Validate
    \/ ParseTagElements
    \/ AttachMetadata
    \/ AngiverRow
    \/ AddInterninfoColumns
    \/ TransformCheckbox
    \/ ApplyMapping
    \/ AddLopenr
    \/ ReorderColumns
    \/ XmlCheck
    \/ XmlFlatten

Spec == Init /\ [][Next]_vars

\* ------------------------------------------------------------------------
\* The helpers called on their own, as the unit tests call them
\* ------------------------------------------------------------------------

RECURSIVE SeqsUpTo(_, _)
\* the sequences of at most n elements of S
SeqsUpTo(S, n) ==
    IF n = 0 THEN { << >> }
    ELSE LET shorter == SeqsUpTo(S, n - 1)
         IN  shorter \cup { Append(s, x) : s \in shorter, x \in S }

CheckboxRows ==
    { NameValueRow(name, value) :
        name \in {KeyA, KeyB},
        value \in { << "x" >>, << "x", ",", "y" >>, << "y", ",", "x", ",", "y" >> } }

\* tables with the columns FELTNAVN and FELTVERDI
CheckboxFrames ==
    { Frame(<< "FELTNAVN", "FELTVERDI" >>, rows) : rows \in SeqsUpTo(CheckboxRows, MaxRows) }

CounterCells ==
    { PyList(c) : c \in SeqsUpTo({ << "1" >>, << "2" >> }, MaxCounters) }
      \cup { PyStr(<< "n", "o" >>) }

\* rows with a COUNTER cell that is a list or not, and a row without one
LevelFrames ==
    { Frame(<< "COUNTER" >>, << [ c \in {"COUNTER"} |-> cell ] >>) : cell \in CounterCells }
      \cup { Frame(<< "FELTNAVN" >>, << [ c \in {"FELTNAVN"} |-> KeyA ] >>) }

InitHelpers ==
    /\ \/ /\ entry = "_transform_checkbox_var"
          /\ final_df \in CheckboxFrames
          /\ checkbox_vars \in { Some(<< KeyA >>), Some(<< KeyB >>) }
          /\ unique_code \in BOOLEAN
          /\ new_value \in { DefaultNewValue, << "J" >> }
       \/ /\ entry = "_create_levels_col"
          /\ final_df \in LevelFrames
          /\ checkbox_vars = Nothing
          /\ unique_code = FALSE
          /\ new_value = DefaultNewValue
    /\ file_path = << >>
    /\ mapping = Nothing
    /\ tag_list = Nothing
    /\ xml_file = MissingFile
    /\ json_file = NoJsonFile
    /\ pc = "call"
    /\ raised = NoException
    /\ NoTableCall
    /\ NoStore
    /\ NothingWritten
    /\ NoHelperCall

\* _transform_checkbox_var(df, checkbox_var, unique_code, new_value)
CallTransformCheckboxVar ==
    /\ pc = "call"
    /\ entry = "_transform_checkbox_var"
    /\ Goto("returned",
            _transform_checkbox_var(final_df, checkbox_vars.val[1], unique_code, new_value))
    /\ UNCHANGED inputs

\* df.apply(_create_levels_col, axis=1)
CallCreateLevelsCol ==
    /\ pc = "call"
    /\ entry = "_create_levels_col"
    /\ Goto("returned",
            SetColumn(final_df, "LEVELS",
                [ i \in DOMAIN final_df.rows |-> _create_levels_col(final_df.rows[i]) ]))
    /\ UNCHANGED inputs

NextHelpers ==
    \/ CallTransformCheckboxVar
    \/ CallCreateLevelsCol

SpecHelpers == InitHelpers /\ [][NextHelpers]_vars

\* ------------------------------------------------------------------------
\* The field mapper of isee_transform applied to a table, and applied again
\* ------------------------------------------------------------------------

MapperNames == { KeyA, KeyB, << "a", "b" >> }

\* mappings from some of the names a and b, among them {a: b, b: a}
MapperMappings ==
    UNION { [ keys -> MapperNames ] : keys \in SUBSET { KeyA, KeyB } }

MapperFrames ==
    { Frame(<< "FELTNAVN" >>, rows) :
        rows \in SeqsUpTo({ [ c \in {"FELTNAVN"} |-> name ] : name \in MapperNames }, MaxRows) }

InitMapper ==
    /\ entry = "replace"
    /\ final_df \in MapperFrames
    /\ mapping \in { Some(m) : m \in MapperMappings }
    /\ checkbox_vars = Nothing
    /\ unique_code = FALSE
    /\ new_value = DefaultNewValue
    /\ file_path = << >>
    /\ tag_list = Nothing
    /\ xml_file = MissingFile
    /\ json_file = NoJsonFile
    /\ pc = "call"
    /\ raised = NoException
    /\ NoTableCall
    /\ NoStore
    /\ NothingWritten
    /\ NoHelperCall

\* final_df["FELTNAVN"] = final_df["FELTNAVN"].replace(mapping)
ReplaceOnce ==
    /\ pc = "call"
    /\ entry = "replace"
    /\ Goto("once", ReplaceNames(final_df, mapping.val))
    /\ UNCHANGED inputs

\* the same statement on the table it produced
ReplaceAgain ==
    /\ pc = "once"
    /\ entry = "replace"
    /\ Goto("returned", ReplaceNames(final_df, mapping.val))
    /\ UNCHANGED inputs

NextMapper ==
    \/ ReplaceOnce
    \/ ReplaceAgain

SpecMapper == InitMapper /\ [][NextMapper]_vars

\* ------------------------------------------------------------------------
\* transform_table_in_table called on the rows of one table in table
\* ------------------------------------------------------------------------

Navn == << "N", "a", "v", "n" >>
Aarstid == << "A", "a", "r", "s", "t", "i", "d" >>
Areal == << "A", "r", "e", "a", "l" >>
Mengde == << "M", "e", "n", "g", "d", "e" >>

\* the name isee_transform gives a field of outer instance k
InstanceName(felt, k) == felt \o << "_" >> \o zfill(Str(k), 3)

\* the rows isee_transform returns for outer instance k: the table field
\* Navn when shape.navn = 1, then each row field once per inner row
InstanceRows(k, shape) ==
    [ i \in 1..shape.navn |-> NameValueRow(InstanceName(Navn, k), << "n" >>) ]
    \o [ j \in 1..shape.aarstid |-> NameValueRow(InstanceName(Aarstid, k), << "s" >> \o Str(j)) ]
    \o [ j \in 1..shape.areal |-> NameValueRow(InstanceName(Areal, k), << "r" >> \o Str(j)) ]
    \o [ j \in 1..shape.mengde |-> NameValueRow(InstanceName(Mengde, k), << "m" >> \o Str(j)) ]

\* the numbers of rows of an outer instance, among them 2, 3 and 1
Shapes ==
    [ navn : {0, 1}, aarstid : {0, MaxInner - 1}, areal : {0, MaxInner}, mengde : {1} ]

RECURSIVE TableRows(_)
\* the rows of tables with n outer instances
TableRows(n) ==
    IF n = 0 THEN { << >> }
    ELSE { rows \o InstanceRows(n, shape) : rows \in TableRows(n - 1), shape \in Shapes }

TableFrames ==
    { Frame(<< "FELTNAVN", "FELTVERDI" >>, rows) :
        rows \in UNION { TableRows(n) : n \in 0..MaxInstances } }

RestRow(ident, name) ==
    [ c \in Range(columns_order) |->
        CASE c = "SKJEMA_ID" -> << "R", "A", "3" >>
          [] c = "DELREG_NR" -> << "2" >>
          [] c = "IDENT_NR" -> ident
          [] c = "ENHETS_TYPE" -> << "B" >>
          [] c = "VERSION_NR" -> << "7" >>
          [] c = "FELTNAVN" -> name
          [] c = "FELTVERDI" -> << "x" >> ]

\* a rest_of_data with one value in each broadcast column
ConsistentRest ==
    Frame(columns_order, << RestRow(<< "9" >>, KeyA), RestRow(<< "9" >>, ANGIVER_ID) >>)

\* a rest_of_data with two values of IDENT_NR
InconsistentRest ==
    Frame(columns_order, << RestRow(<< "9" >>, KeyA), RestRow(<< "8" >>, ANGIVER_ID) >>)

\* the arguments besides table_data; the starting value 999 makes the
\* running numbers pass 999
TableCalls ==
    [ table_fields : { << >>, << Navn >> },
      row_fields : { << Aarstid >>, << Aarstid, Areal, Mengde >> },
      counter_starting_value : { 1, 999 },
      rest_of_data : { ConsistentRest, InconsistentRest } ]

InitTable ==
    /\ entry = "transform_table_in_table"
    /\ table_data \in TableFrames
    /\ \E call \in TableCalls :
         /\ table_fields = call.table_fields
         /\ row_fields = call.row_fields
         /\ counter_starting_value = call.counter_starting_value
         /\ rest_of_data = call.rest_of_data
    /\ relevante_lopenr = << >>
    /\ flattened_table_data = EmptyFrame
    /\ file_path = << >>
    /\ mapping = Nothing
    /\ tag_list = Nothing
    /\ checkbox_vars = Nothing
    /\ unique_code = FALSE
    /\ new_value = DefaultNewValue
    /\ xml_file = MissingFile
    /\ json_file = NoJsonFile
    /\ pc = "select"
    /\ final_df = EmptyFrame
    /\ raised = NoException
    /\ NoStore
    /\ NothingWritten
    /\ NoHelperCall

\* lines 59-75: the rows are selected and relevante_lopenr is computed
TableSelect ==
    /\ pc = "select"
    /\ entry = "transform_table_in_table"
    /\ relevante_lopenr' = relevante_lopenr_of(table_data, row_fields)
    /\ pc' = "loop"
    /\ UNCHANGED << call_args, table_args, flattened_table_data, final_df, raised,
                    store_vars, parquet_vars >>

\* lines 76-124: one pass of the loop over relevante_lopenr
TableInstance ==
    /\ pc = "loop"
    /\ relevante_lopenr # << >>
    /\ LET lopenr == Head(relevante_lopenr)
           test == test_columns(table_data, table_fields, row_fields, lopenr)
       IN  IF /\ HasColumn(flattened_table_data, "FELTNAVN")
              /\ flattened_table_data.rows = << >>
           THEN /\ raised' = Exception("ValueError", << >>, << >>)
                /\ pc' = "raised"
                /\ UNCHANGED table_locals
           ELSE /\ flattened_table_data' =
                     concat(flattened_table_data,
                            dynamic_list_rows_of(test,
                                current_count_of(flattened_table_data,
                                                 counter_starting_value)))
                /\ relevante_lopenr' = Tail(relevante_lopenr)
                /\ UNCHANGED << pc, raised >>
    /\ UNCHANGED << call_args, table_args, final_df, store_vars, parquet_vars >>

\* lines 126-140: the broadcast columns are read from rest_of_data and put
\* on the new rows, and the two tables are returned as one
TableBroadcast ==
    /\ pc = "loop"
    /\ relevante_lopenr = << >>
    /\ LET read == [ i \in DOMAIN broadcast_columns |->
                       next(unique(rest_of_data, broadcast_columns[i])) ]
           failed == { i \in DOMAIN read : read[i].raises # "none" }
       IN  IF failed # {}
           THEN /\ raised' = Exception(read[CHOOSE i \in failed : \A j \in failed : i <= j].raises,
                                       << >>, << >>)
                /\ pc' = "raised"
                /\ UNCHANGED final_df
           ELSE /\ final_df' =
                     concat(rest_of_data,
                            AssignAll(flattened_table_data, broadcast_columns,
                                      [ i \in DOMAIN read |-> read[i].value ]))
                /\ pc' = "returned"
                /\ UNCHANGED raised
    /\ UNCHANGED << call_args, table_args, table_locals, store_vars, parquet_vars >>

NextTable ==
    \/ TableSelect
    \/ TableInstance
    \/ TableBroadcast

SpecTable == InitTable /\ [][NextTable]_vars

\* ------------------------------------------------------------------------
\* create_isee_filename and xml_to_parquet called on a form
\* ------------------------------------------------------------------------

kontaktPerson == << "k", "o", "n", "t", "a", "k", "t", "P", "e", "r", "s", "o", "n" >>

\* a Kontakt section with a kontaktPerson and another element
ContactDoc ==
    Map(<< Item(kontaktPerson, Map(<< Item(KeyA, Leaf(<< "k" >>)) >>)),
           Item(KeyB, Leaf(<< "z" >>)) >>)

\* documents with the sections InternInfo (when given), SkjemaData and
\* Kontakt and an element Z that xml_to_parquet does not keep
ParquetRoots ==
    { Map(interninfo \o << Item(SkjemaData, skjemadata), Item(Kontakt, ContactDoc),
                           Item(<< "Z" >>, Leaf(<< "q" >>)) >>) :
        interninfo \in { << >> } \cup
            { << Item(InternInfo, InternInfoWith(present)) >> :
                present \in { Range(AllInternInfoKeys), Range(required_keys), {raNummer} } },
        skjemadata \in { FixtureFlat, FixtureRepeated } }

ParquetFiles == {MissingFile, MalformedFile} \cup { XmlFile(root) : root \in ParquetRoots }

\* a sidecar with a key that starts like the names of the contact person
ContactSidecarDict == << << Kontakt_kontaktPerson \o << "_", "a" >>, << "k" >> >> >>

ParquetSidecars ==
    { NoJsonFile, JsonFile(SidecarDict), EmptyJsonFile, InvalidJsonFile,
      JsonFile(ContactSidecarDict) }

\* a path that does not end with .xml
PathToText == << "7", ".", "t", "x", "t" >>

FolderWithSlash == << "d", "/" >>
FolderWithoutSlash == << "d" >>

InitParquet ==
    /\ \/ /\ entry = "xml_to_parquet"
          /\ file_path \in FilePaths \cup {PathToText}
          /\ json_file \in ParquetSidecars
          /\ keep_contact_information \in BOOLEAN
          /\ destination_folder \in {FolderWithSlash, FolderWithoutSlash}
          /\ pc = "check"
       \/ /\ entry = "create_isee_filename"
          /\ file_path \in FilePaths
          /\ json_file = NoJsonFile
          /\ keep_contact_information = FALSE
          /\ destination_folder = << >>
          /\ pc = "call"
    /\ xml_file \in ParquetFiles
    /\ filename = None
    /\ written = EmptyFrame
    /\ mapping = Nothing
    /\ tag_list = Nothing
    /\ checkbox_vars = Nothing
    /\ unique_code = FALSE
    /\ new_value = DefaultNewValue
    /\ final_df = EmptyFrame
    /\ raised = NoException
    /\ NoTableCall
    /\ NoStore
    /\ NoHelperCall

\* what a step of xml_to_parquet leaves alone
parquet_args == << call_args, keep_contact_information, destination_folder,
                   table_args, table_locals, store_vars >>

\* create_isee_filename(file_path)
CreateIseeFilename ==
    /\ pc = "call"
    /\ entry = "create_isee_filename"
    /\ LET result == create_isee_filename(file_path, xml_file)
       IN  IF result.raises # "none"
           THEN /\ Raise(Exception(result.raises, << >>, << >>))
                /\ UNCHANGED filename
           ELSE /\ filename' = result.value
                /\ pc' = "returned"
                /\ UNCHANGED << final_df, raised >>
    /\ UNCHANGED << parquet_args, written >>

\* xml_to_parquet, lines 42-53: the checks of the arguments
ParquetCheck ==
    /\ pc = "check"
    /\ entry = "xml_to_parquet"
    /\ IF ~EndsWith(destination_folder, << "/" >>)
       THEN Raise(Exception("ValueError", << >>, << destination_folder >>))
       ELSE IF ~EndsWith(file_path, DotXml)
       THEN Raise(Exception("ValueError", << >>, << file_path >>))
       ELSE Goto("transform", final_df)
    /\ UNCHANGED << parquet_args, filename, written >>

\* xml_to_parquet, lines 54-65: xml_transform and the selection of rows
ParquetTransform ==
    /\ pc = "transform"
    /\ entry = "xml_to_parquet"
    /\ LET valid == is_valid_xml(xml_file, file_path)
       IN  IF valid = "True"
           THEN Goto("sidecar", select_rows(xml_transform_table(xml_file.root),
                                            keep_contact_information))
           ELSE IF valid = "False"
           THEN Raise(Exception("ValueError", << >>, << file_path >>))
           ELSE Raise(Exception(valid, << >>, << >>))
    /\ UNCHANGED << parquet_args, filename, written >>

\* xml_to_parquet, lines 66-72: the rows of the sidecar are put below
ParquetSidecar ==
    /\ pc = "sidecar"
    /\ entry = "xml_to_parquet"
    /\ LET json_content == _read_json_meta(file_path, json_file)
       IN  IF json_content.raises # "none"
           THEN Raise(Exception(json_content.raises, << >>, << >>))
           ELSE Goto("write", concat(final_df, json_content_frame(json_content.value)))
    /\ UNCHANGED << parquet_args, filename, written >>

\* xml_to_parquet, lines 73-79: the file name is made and the table written
ParquetWrite ==
    /\ pc = "write"
    /\ entry = "xml_to_parquet"
    /\ LET isee_name == create_isee_filename(file_path, xml_file)
       IN  IF isee_name.raises # "none"
           THEN /\ Raise(Exception(isee_name.raises, << >>, << >>))
                /\ UNCHANGED << filename, written >>
           ELSE IF isee_name.value = None
           THEN /\ Raise(Exception("TypeError", << >>, << >>))
                /\ UNCHANGED << filename, written >>
           ELSE /\ filename' = isee_name.value
                /\ written' = final_df
                /\ pc' = "returned"
                /\ UNCHANGED << final_df, raised >>
    /\ UNCHANGED parquet_args

NextParquet ==
    \/ CreateIseeFilename
    \/ ParquetCheck
    \/ ParquetTransform
    \/ ParquetSidecar
    \/ ParquetWrite

SpecParquet == InitParquet /\ [][NextParquet]_vars

\* ------------------------------------------------------------------------
\* Calls of insert_or_save_data and insert_into_database against one table
\* ------------------------------------------------------------------------

\* the key columns of the calls
StoreKeys == << "aar", "ident" >>

StoreRows ==
    [ {"aar", "ident", "value"} -> { << "x" >>, << "y" >> } ]

\* batches of one row
Batches ==
    { Frame(<< "aar", "ident", "value" >>, << row >>) : row \in StoreRows }

\* a table without rows, and tables with one row
InitialTables == { << >> } \cup { << row >> : row \in StoreRows }

InitStore ==
    /\ entry \in {"insert_or_save_data", "insert_into_database"}
    /\ database \in InitialTables
    /\ data = EmptyFrame
    /\ insert_calls = 0
    /\ pc = "idle"
    /\ file_path = << >>
    /\ mapping = Nothing
    /\ tag_list = Nothing
    /\ checkbox_vars = Nothing
    /\ unique_code = FALSE
    /\ new_value = DefaultNewValue
    /\ xml_file = MissingFile
    /\ json_file = NoJsonFile
    /\ final_df = EmptyFrame
    /\ raised = NoException
    /\ NoTableCall
    /\ NothingWritten
    /\ NoHelperCall

\* one call with a batch: existing is the table as the store returns it, a
\* DataFrame, so the ValueError of lines 401-404 is not raised; self.conn.insert
\* is called with new_data when new_data is not empty
InsertCall ==
    /\ pc = "idle"
    /\ \E batch \in Batches :
         LET existing == database
             new_data == new_data_of(batch.rows, existing, StoreKeys)
         IN  /\ data' = batch
             /\ IF new_data # << >>
                THEN /\ database' = database \o new_data
                     /\ insert_calls' = insert_calls + 1
                ELSE UNCHANGED << database, insert_calls >>
    /\ UNCHANGED << call_args, pc, final_df, raised, table_args, table_locals,
                    parquet_vars >>

NextStore == InsertCall

SpecStore == InitStore /\ [][NextStore]_vars

\* ------------------------------------------------------------------------
\* _flatten_dict, the sidecar path, _extract_angiver_id,
\* _pad_microseconds_to_six and traverse_xml, each called on one argument
\* ------------------------------------------------------------------------

\* a list of n scalars, as xmltodict returns for a leaf element that occurs
\* n >= 2 times
ScalarList(n) == List([ i \in 1..n |-> Leaf(Str(i)) ])

ScalarLists == { ScalarList(n) : n \in 2..MaxScalars }

\* mappings in which the value of a key is a list of scalars: at the top,
\* beside other keys, below a mapping, and inside a repeated group
ScalarListDocs ==
    LET tops == { Map(<< Item(KeyA, l) >>) : l \in ScalarLists }
                  \cup { Map(<< Item(KeyB, Leaf(<< "y" >>)), Item(KeyA, l) >>) :
                           l \in ScalarLists }
                  \cup { Map(<< Item(KeyA, l), Item(KeyB, m) >>) :
                           l \in ScalarLists, m \in ScalarLists }
    IN  tops
          \cup { Map(<< Item(KeyB, t) >>) : t \in tops }
          \cup { Map(<< Item(KeyB, List(<< t, u >>)) >>) : t \in tops, u \in tops }

\* the segments paths are built of
PathDirs ==
    { << "d" >>, << "f", "o", "r", "m", "_", "d" >>, << "d", ".", "x", "m", "l" >> }

PathNames ==
    { << "f", "o", "r", "m", "_", "7", ".", "x", "m", "l" >>,
      << "f", "o", "r", "m", "_", ".", "x", "m", "l" >>,
      << "f", "o", "r", "m", "_", "7" >>,
      << "n", "o", "_", "f", "o", "r", "m", "_", "7", ".", "x", "m", "l" >>,
      << "7", ".", "x", "m", "l" >> }

\* the paths of at most MaxDirs directories, relative, absolute and gs://
TextPaths ==
    LET dirs == UNION { [1..n -> PathDirs] : n \in 0..MaxDirs }
        Joined(ds) == Concat([ i \in DOMAIN ds |-> ds[i] \o << "/" >> ])
    IN  { start \o Joined(ds) \o name :
            start \in { << >>, << "/" >>, << "g", "s", ":", "/", "/" >> },
            ds \in dirs, name \in PathNames }

Digits07 == { "0", "7" }

DateTime ==
    << "2", "0", "2", "5", "-", "0", "3", "-", "2", "0", "T",
       "1", "5", ":", "5", "4", ":", "4", "0" >>

\* the fractions of at most MaxFraction digits
Fractions == UNION { [1..n -> Digits07] : n \in 0..MaxFraction }

\* timestamps with and without a fraction, in UTC, with an offset, and
\* without a zone
Timestamps ==
    { DateTime \o << "." >> \o f \o << "Z" >> : f \in Fractions }
      \cup { DateTime \o << "Z" >> }
      \cup { DateTime \o << "." >> \o f \o << "+", "0", "0", ":", "0", "0" >> :
               f \in { g \in Fractions : Len(g) <= 1 } }
      \cup { DateTime \o << "." , "7" >> }

\* an element whose children are leaves with the tags of the sequence tags,
\* the i-th holding the text str(from + i)
LeavesElement(tags, from) ==
    Map([ i \in DOMAIN tags |-> Item(tags[i], Leaf(Str(from + i))) ])

TagSeqs == UNION { [1..n -> {KeyA, KeyB}] : n \in 1..MaxLeaves }

\* root elements: one group holding all leaves, and one group per leaf
Elements ==
    { Map(<< Item(KeyA, LeavesElement(tags, 0)) >>) : tags \in TagSeqs }
      \cup { Map([ i \in DOMAIN tags |->
                     Item(KeyA, LeavesElement(<< tags[i] >>, i - 1)) ]) :
               tags \in TagSeqs }

\* the names of rows handed to _add_interninfo_columns: a plain one, the nil
\* marker alone, and the marker as the last part of a flattened path
NilNames ==
    { KeyA, XsiNil, << "£", "1", "$" >> \o KeyA \o Underscore \o XsiNil }

NilFrames ==
    { Frame(<< "FELTNAVN", "FELTVERDI" >>, rows) :
        rows \in SeqsUpTo({ NameValueRow(name, << "x" >>) : name \in NilNames },
                          MaxRows) }

InitFunctions ==
    /\ \/ entry = "_flatten_dict" /\ argument \in ScalarListDocs
       \/ entry = "_read_json_meta" /\ argument \in TextPaths
       \/ entry = "_extract_angiver_id" /\ argument \in TextPaths
       \/ entry = "_pad_microseconds_to_six" /\ argument \in Timestamps
       \/ entry = "traverse_xml" /\ argument \in Elements
       \/ entry = "_add_interninfo_columns" /\ argument \in NilFrames
    /\ return_value = None
    /\ pc = "call"
    /\ file_path = << >>
    /\ mapping = Nothing
    /\ tag_list = Nothing
    /\ checkbox_vars = Nothing
    /\ unique_code = FALSE
    /\ new_value = DefaultNewValue
    /\ xml_file = MissingFile
    /\ json_file = NoJsonFile
    /\ final_df = EmptyFrame
    /\ raised = NoException
    /\ NoTableCall
    /\ NoStore
    /\ NothingWritten

\* what a call of a single function leaves alone
function_args == << entry, file_path, mapping, tag_list, checkbox_vars, unique_code,
                    new_value, xml_file, json_file, argument, final_df,
                    table_args, table_locals, store_vars, parquet_vars >>

\* the return of a call
Return(value) ==
    /\ pc' = "returned"
    /\ return_value' = value
    /\ UNCHANGED << raised, function_args >>

\* _flatten_dict(d)
CallFlattenDict ==
    /\ pc = "call"
    /\ entry = "_flatten_dict"
    /\ Return(_flatten_dict(argument, << >>, Underscore))

\* _read_json_meta, line 399
CallJsonFilePath ==
    /\ pc = "call"
    /\ entry = "_read_json_meta"
    /\ Return(json_file_path(argument))

\* _extract_angiver_id(file_path)
CallExtractAngiverId ==
    /\ pc = "call"
    /\ entry = "_extract_angiver_id"
    /\ Return(_extract_angiver_id(argument))

\* _pad_microseconds_to_six(date_str)
CallPadMicroseconds ==
    /\ pc = "call"
    /\ entry = "_pad_microseconds_to_six"
    /\ LET padded == _pad_microseconds_to_six(argument)
       IN  IF padded.raises # "none"
           THEN /\ pc' = "raised"
                /\ raised' = Exception(padded.raises, << >>, << >>)
                /\ UNCHANGED return_value
           ELSE /\ pc' = "returned"
                /\ return_value' = padded.value
                /\ UNCHANGED raised
    /\ UNCHANGED function_args

\* ParseSingleXml.traverse_xml(root)
CallTraverseXml ==
    /\ pc = "call"
    /\ entry = "traverse_xml"
    /\ Return(traverse_xml(argument))

\* _add_interninfo_columns(df, xml_dict, root_element, file_path) on a
\* document with a complete InternInfo
CallAddInterninfoColumns ==
    /\ pc = "call"
    /\ entry = "_add_interninfo_columns"
    /\ Return(_add_interninfo_columns(argument, FullInternInfo, PathWithForm))

NextFunctions ==
    \/ CallFlattenDict
    \/ CallJsonFilePath
    \/ CallExtractAngiverId
    \/ CallPadMicroseconds
    \/ CallTraverseXml
    \/ CallAddInterninfoColumns

SpecFunctions == InitFunctions /\ [][NextFunctions]_vars

\* ------------------------------------------------------------------------
\* Properties
\* ------------------------------------------------------------------------

RequiredKeySet == {enhetsIdent, enhetsType, delregNr}

\* the required keys the InternInfo section of the document does not hold
AbsentRequiredKeys ==
    IF HasKey(xml_file.root, InternInfo)
    THEN { key \in RequiredKeySet : ~HasKey(Get(xml_file.root, InternInfo), key) }
    ELSE RequiredKeySet

\* a call of isee_transform on a well-formed document
IseeOnWellFormed ==
    entry = "isee_transform" /\ xml_file.exists /\ xml_file.wellformed

\* a call on a file whose text is not well-formed XML
OnMalformed ==
    entry \in {"isee_transform", "xml_transform"}
      /\ xml_file.exists /\ ~xml_file.wellformed

C2_ErrorListsExactlyAbsentKeys ==
    (IseeOnWellFormed /\ AbsentRequiredKeys # {} /\ pc = "raised") =>
        /\ Range(raised.keys) = AbsentRequiredKeys
        /\ raised.path = << file_path >>

\* C3: every call of isee_transform whose document passes the validation
\* returns a table with exactly the seven columns, in order
C3_ReturnsSevenColumns ==
    (IseeOnWellFormed /\ AbsentRequiredKeys = {}) =>
        /\ pc # "raised"
        /\ pc = "returned" => final_df.columns = columns_order

\* the cell of column c in every row of the table
EveryRowHas(c, value) == \A i \in DOMAIN final_df.rows : final_df.rows[i][c] = value

InternInfoText(key) == Get(Get(xml_file.root, InternInfo), key).val

HasRowNamed(name) == \E i \in DOMAIN final_df.rows : final_df.rows[i]["FELTNAVN"] = name

C9_MalformedErrorNamesPath ==
    OnMalformed =>
        /\ pc # "returned"
        /\ pc = "raised" => raised.path = << file_path >>

\* the mapping isee_transform flattens when tag_list is left at its default
SkjemaDoc == Get(xml_file.root, SkjemaData)

RECURSIVE NoLists(_)
\* the document holds mappings and scalar leaves only
NoLists(node) ==
    CASE node.kind = "leaf" -> TRUE
      [] node.kind = "list" -> FALSE
      [] OTHER -> \A i \in DOMAIN node.kids : NoLists(node.kids[i].v)

JoinPath(prefix, key) == IF prefix = << >> THEN key ELSE prefix \o << "_" >> \o key

RECURSIVE LeavesOf(_, _, _)
\* the leaves of a mapping without lists, in document order: the "_"-joined
\* tag path of each and the number of mappings between it and the top
LeavesOf(node, prefix, depth) ==
    Concat([ i \in DOMAIN node.kids |->
        IF node.kids[i].v.kind = "leaf"
        THEN << [name |-> JoinPath(prefix, node.kids[i].k), depth |-> depth] >>
        ELSE LeavesOf(node.kids[i].v, JoinPath(prefix, node.kids[i].k), depth + 1) ])

DistinctNames(leaves) ==
    \A i, j \in DOMAIN leaves : leaves[i].name = leaves[j].name => i = j

\* the rows the sidecar contributes
MetaRowCount == IF json_file.exists /\ json_file.valid THEN Len(json_file.content) ELSE 0

Min2(n) == IF n < 2 THEN n ELSE 2

\* a call of isee_transform that flattens a SkjemaData without lists
FlattensMappingsOnly == IseeOnWellFormed /\ ~tag_list.some /\ NoLists(SkjemaDoc)

\* the names as they leave the Counter Resolver, unchanged by later steps
NamesAreFinal == ~checkbox_vars.some /\ ~mapping.some

LopenrStep == pc = "lopenr" /\ pc' = "reorder"

\* a counter text left-padded with zeros to three characters
Pad3(text) ==
    CASE Len(text) = 0 -> << "0", "0", "0" >>
      [] Len(text) = 1 -> << "0", "0" >> \o text
      [] Len(text) = 2 -> << "0" >> \o text
      [] OTHER -> text

LastCounter(row) == row["COUNTER"].val[Len(row["COUNTER"].val)]

C7_AddLopenr ==
    [][ LopenrStep =>
          LET Kept(c) == c \notin {"COUNTER", "LEVELS"}
          IN  /\ final_df'.columns = SelectSeq(final_df.columns, Kept)
              /\ Len(final_df'.rows) = Len(final_df.rows)
              /\ \A i \in DOMAIN final_df.rows :
                   LET before == final_df.rows[i]
                       after == final_df'.rows[i]
                   IN  /\ DOMAIN after = DOMAIN before \ {"COUNTER", "LEVELS"}
                       /\ after["FELTVERDI"] = before["FELTVERDI"]
                       /\ after["FELTNAVN"] =
                            IF before["LEVELS"] > 0
                            THEN before["FELTNAVN"] \o << "_" >> \o Pad3(LastCounter(before))
                            ELSE before["FELTNAVN"] ]_vars

\* a table with suffixed and unsuffixed names and without the two columns
C7_Witness ==
    /\ entry = "isee_transform"
    /\ pc = "reorder"
    /\ ~HasColumn(final_df, "COUNTER")
    /\ ~HasColumn(final_df, "LEVELS")
    /\ HasRowNamed(<< "a", "_", "a", "_", "0", "0", "2" >>)
    /\ HasRowNamed(ANGIVER_ID)

\* C8: the level of a row is min(len(COUNTER), 2), and 0 when COUNTER is
\* missing or is not a list
C8_LevelFromCounter ==
    (entry = "_create_levels_col" /\ pc = "returned") =>
        \A i \in DOMAIN final_df.rows :
            LET row == final_df.rows[i]
            IN  row["LEVELS"] =
                    IF "COUNTER" \in DOMAIN row /\ row["COUNTER"].type = "list"
                    THEN Min2(Len(row["COUNTER"].val))
                    ELSE 0

\* a row with three counters and level 2
C8_Witness ==
    /\ entry = "_create_levels_col"
    /\ pc = "returned"
    /\ HasColumn(final_df, "COUNTER")
    /\ Len(final_df.rows[1]["COUNTER"].val) = 3
    /\ final_df.rows[1]["LEVELS"] = 2

CommaCount(value) == Cardinality({ i \in DOMAIN value : value[i] = "," })

\* C10: with one row named field_name and N other rows, the result is the N
\* other rows followed by one row per token of the value, named field_name
\* plus token (or token alone with unique_code) and valued new_value; with
\* no row named field_name the table is unchanged
C10_CheckboxExpansion ==
    [][ (pc = "call" /\ entry = "_transform_checkbox_var") =>
          LET field_name == checkbox_vars.val[1]
              Named(row) == row["FELTNAVN"] = field_name
              Other(row) == row["FELTNAVN"] # field_name
              matching == SelectSeq(final_df.rows, Named)
              others == SelectSeq(final_df.rows, Other)
              N == Len(others)
          IN  /\ Len(matching) = 0 => final_df' = final_df
              /\ Len(matching) = 1 =>
                   LET tokens == _split_string(matching[1]["FELTVERDI"])
                       k == CommaCount(matching[1]["FELTVERDI"]) + 1
                   IN  /\ Len(tokens) = k
                       /\ final_df'.columns = final_df.columns
                       /\ Len(final_df'.rows) = N + k
                       /\ SubSeq(final_df'.rows, 1, N) = others
                       /\ \A j \in 1..k :
                            final_df'.rows[N + j] =
                                NameValueRow(IF unique_code THEN tokens[j]
                                             ELSE field_name \o tokens[j],
                                             new_value) ]_vars

\* two other rows followed by the rows of the tokens x and y
C10_Witness ==
    /\ entry = "_transform_checkbox_var"
    /\ pc = "returned"
    /\ checkbox_vars = Some(<< KeyB >>)
    /\ ~unique_code
    /\ Len(final_df.rows) = 4
    /\ final_df.rows[1]["FELTNAVN"] = KeyA
    /\ final_df.rows[2]["FELTNAVN"] = KeyA
    /\ final_df.rows[3] = NameValueRow(<< "b", "x" >>, new_value)
    /\ final_df.rows[4] = NameValueRow(<< "b", "y" >>, new_value)

\* the second application of the field mapper
SecondReplace == entry = "replace" /\ pc = "once" /\ pc' = "returned"

\* no value of the mapping is a key that the mapping changes
NoChainedEntry(m) ==
    \A k \in DOMAIN m : m[k] \in DOMAIN m => m[m[k]] = m[k]

\* C11 as stated: for every mapping, also {a: b, b: a}, the second
\* application of the field mapper leaves every field name as the first
\* application made it
C11_MapperIdempotent ==
    [][ SecondReplace => final_df' = final_df ]_vars

\* C11 as amended: the first application replaces each name that is a key by
\* the value of that key, all entries at once; the second application
\* changes nothing when no value of the mapping is itself a key mapped to
\* something else
C11_MapperIdempotentWithoutChains ==
    [][ /\ (entry = "replace" /\ pc = "call" /\ pc' = "once") =>
            /\ Len(final_df'.rows) = Len(final_df.rows)
            /\ \A i \in DOMAIN final_df.rows :
                 final_df'.rows[i]["FELTNAVN"] =
                     IF final_df.rows[i]["FELTNAVN"] \in DOMAIN mapping.val
                     THEN mapping.val[final_df.rows[i]["FELTNAVN"]]
                     ELSE final_df.rows[i]["FELTNAVN"]
        /\ (SecondReplace /\ NoChainedEntry(mapping.val)) => final_df' = final_df ]_vars

\* a mapped twice with {a: ab}: the name ab, which contains the key, stays
C11_Witness ==
    /\ entry = "replace"
    /\ pc = "returned"
    /\ mapping.val = [ k \in {KeyA} |-> << "a", "b" >> ]
    /\ Len(final_df.rows) = 2
    /\ final_df.rows[1]["FELTNAVN"] = << "a", "b" >>
    /\ final_df.rows[2]["FELTNAVN"] = KeyB

\* the running numbers of the physical rows made so far: the numbers in the
\* names of the rows of the first row field, one per physical row
PhysicalRowNumbers ==
    LET OfFirstField(row) == StartsWith(row["FELTNAVN"], row_fields[1] \o << "_" >>)
        rows == SelectSeq(flattened_table_data.rows, OfFirstField)
    IN  [ j \in DOMAIN rows |-> astype_int(LastSegment(rows[j]["FELTNAVN"])) ]

\* C12: within one call the physical rows get the running numbers
\* counter_starting_value, counter_starting_value + 1, ... in order of outer
\* instance and row position, so no two of them share a number
C12_ConsecutiveRunningNumbers ==
    (entry = "transform_table_in_table" /\ pc = "loop") =>
        \A j \in DOMAIN PhysicalRowNumbers :
            PhysicalRowNumbers[j] = counter_starting_value + j - 1

\* one pass of the loop of transform_table_in_table
InstanceStep ==
    /\ entry = "transform_table_in_table"
    /\ pc = "loop"
    /\ relevante_lopenr # << >>
    /\ pc' = "loop"

\* the number of rows of table_data named felt + "_" + lopenr
RowsNamed(felt, lopenr) ==
    Cardinality({ i \in DOMAIN table_data.rows :
                    table_data.rows[i]["FELTNAVN"] = felt \o << "_" >> \o lopenr })

\* the length of the longest row field of the instance lopenr
Longest(lopenr) ==
    CHOOSE n \in { RowsNamed(row_fields[i], lopenr) : i \in DOMAIN row_fields } :
        \A i \in DOMAIN row_fields : RowsNamed(row_fields[i], lopenr) <= n

RowsAdded == Len(flattened_table_data'.rows) - Len(flattened_table_data.rows)

\* C13 as stated: the rows added for an instance number (length of the
\* longest row field) x (number of row_fields), whatever table_fields is
C13_RowsPerInstance ==
    [][ InstanceStep =>
          RowsAdded = Longest(Head(relevante_lopenr)) * Len(row_fields) ]_vars

RECURSIVE Sum(_)
Sum(numbers) == IF numbers = << >> THEN 0 ELSE Head(numbers) + Sum(Tail(numbers))

\* C13 as amended: the rows added for an instance number (length of the
\* longest row field) x (number of row_fields + number of table_fields with
\* exactly one value in the instance); the rows with a null value among
\* them are those that pad the shorter row fields
C13_RowsPerInstanceWithTableFields ==
    [][ InstanceStep =>
          LET lopenr == Head(relevante_lopenr)
              OneValue(felt) == RowsNamed(felt, lopenr) = 1
              before == Len(flattened_table_data.rows)
              added == [ j \in 1..RowsAdded |-> flattened_table_data'.rows[before + j] ]
              Null(row) == row["FELTVERDI"] = NaN
          IN  /\ RowsAdded = Longest(lopenr)
                     * (Len(row_fields) + Len(SelectSeq(table_fields, OneValue)))
              /\ Len(SelectSeq(added, Null)) =
                     Sum([ i \in DOMAIN row_fields |->
                             Longest(lopenr) - RowsNamed(row_fields[i], lopenr) ]) ]_vars

\* an instance with the table field Navn and row fields of the lengths
\* MaxInner - 1, MaxInner and 1: four names on each of MaxInner physical rows
C13_Witness ==
    /\ entry = "transform_table_in_table"
    /\ pc = "loop"
    /\ table_fields = << Navn >>
    /\ Len(row_fields) = 3
    /\ counter_starting_value = 1
    /\ Len(flattened_table_data.rows) = MaxInner * 4
    /\ flattened_table_data.rows[MaxInner]["FELTNAVN"] = InstanceName(Aarstid, MaxInner)
    /\ flattened_table_data.rows[MaxInner]["FELTVERDI"] = NaN
    /\ flattened_table_data.rows[MaxInner * 4]["FELTNAVN"] = InstanceName(Navn, MaxInner)

\* every broadcast column of rest_of_data holds one value
SingleValued ==
    \A i \in DOMAIN broadcast_columns :
        \A j, k \in DOMAIN rest_of_data.rows :
            rest_of_data.rows[j][broadcast_columns[i]] =
                rest_of_data.rows[k][broadcast_columns[i]]

\* C14: the call fails when a broadcast column of rest_of_data holds more
\* than one value; otherwise it returns rest_of_data followed by the
\* unpivoted rows, each carrying the value of each of the five columns
C14_BroadcastOrFail ==
    (entry = "transform_table_in_table" /\ pc \in {"returned", "raised"}) =>
        IF SingleValued
        THEN /\ pc = "returned"
             /\ Len(final_df.rows) = Len(rest_of_data.rows) + Len(flattened_table_data.rows)
             /\ \A j \in DOMAIN final_df.rows :
                  /\ j <= Len(rest_of_data.rows) => final_df.rows[j] = rest_of_data.rows[j]
                  /\ \A i \in DOMAIN broadcast_columns :
                       final_df.rows[j][broadcast_columns[i]] =
                           rest_of_data.rows[1][broadcast_columns[i]]
        ELSE pc = "raised"

\* the rows _parse_tag_elements makes of the document
FormRows == _parse_tag_elements(xml_file.root, TagListInForce).rows

\* isee_transform has passed _validate_file on a document that holds raNummer
ValidatedWithRaNummer ==
    /\ IseeOnWellFormed
    /\ AbsentRequiredKeys = {}
    /\ HasKey(Get(xml_file.root, InternInfo), raNummer)

\* the table holds the form-data rows and the ANGIVER_ID row and no other
OnlyFormRowsAndAngiver ==
    /\ Len(final_df.rows) = Len(FormRows) + 1
    /\ \A i \in DOMAIN FormRows : final_df.rows[i] = FormRows[i]
    /\ final_df.rows[Len(final_df.rows)]["FELTNAVN"] = ANGIVER_ID

\* C15: without a sidecar file isee_transform raises nothing, and its table
\* holds the form-data rows and the ANGIVER_ID row only, as it does with a
\* sidecar holding {}
C15_MissingSidecar ==
    (ValidatedWithRaNummer /\ (~json_file.exists \/ json_file = EmptyJsonFile)) =>
        /\ pc # "raised"
        /\ pc = "interninfo" => OnlyFormRowsAndAngiver
        /\ pc = "checkbox" => Len(final_df.rows) = Len(FormRows) + 1
        /\ (pc = "returned" /\ ~checkbox_vars.some) =>
             /\ Len(final_df.rows) = Len(FormRows) + 1
             /\ final_df.rows[Len(final_df.rows)]["FELTNAVN"] = ANGIVER_ID

\* a returned table of a call without a sidecar file
C15_Witness ==
    /\ ValidatedWithRaNummer
    /\ ~json_file.exists
    /\ pc = "returned"
    /\ ~checkbox_vars.some
    /\ Len(final_df.rows) = 3
    /\ final_df.rows[3]["FELTNAVN"] = ANGIVER_ID

\* C16: with a sidecar file whose content is not JSON the transform raises
\* nothing and goes on as with an empty sidecar, for local and gs:// paths
C16_InvalidSidecarTolerated ==
    (ValidatedWithRaNummer /\ json_file = InvalidJsonFile) =>
        /\ pc # "raised"
        /\ pc = "interninfo" => OnlyFormRowsAndAngiver

\* the document read by create_isee_filename holds InternInfo/raNummer
HasRaNummer ==
    /\ HasKey(xml_file.root, InternInfo)
    /\ HasKey(Get(xml_file.root, InternInfo), raNummer)

\* C17: create_isee_filename returns raNummer + "A3_" + id + ".csv" when
\* the document holds InternInfo/raNummer, and returns None without raising
\* when it does not
C17_FilenameOrNone ==
    (entry = "create_isee_filename" /\ xml_file.exists /\ xml_file.wellformed
       /\ pc # "call") =>
        IF HasRaNummer
        THEN /\ pc = "returned"
             /\ filename = << "R", "A", "3", "_" >>
                             \o (IF file_path = PathWithoutForm
                                 THEN << "N", "o", "n", "e" >> ELSE << "7" >>)
                             \o << ".", "c", "s", "v" >>
        ELSE pc = "returned" /\ filename = None

NamesContact(row) == StartsWith(row["FELTNAVN"], Kontakt_kontaktPerson)

\* the rows of the written table that come from the sidecar
SidecarRowCount ==
    IF json_file.exists /\ json_file.valid THEN Len(json_file.content) ELSE 1

WrittenByParquet == entry = "xml_to_parquet" /\ pc = "returned"

\* C19 as stated: with keep_contact_information false the written table
\* holds no row named Kontakt_kontaktPerson..., whatever the document and
\* the sidecar hold; with it true the rows of the document so named are kept
C19_NoContactRows ==
    WrittenByParquet =>
        IF keep_contact_information
        THEN \E i \in DOMAIN written.rows : NamesContact(written.rows[i])
        ELSE \A i \in DOMAIN written.rows : ~NamesContact(written.rows[i])

\* C19 as amended: with keep_contact_information false no row that comes
\* from the XML document is named Kontakt_kontaktPerson...; the rows of
\* the sidecar are put below unfiltered; with keep_contact_information
\* true the rows of the document so named are kept
C19_NoContactRowsFromXml ==
    WrittenByParquet =>
        LET from_xml == Len(written.rows) - SidecarRowCount
            flat == xml_transform_table(xml_file.root).rows
            contact == SelectSeq(flat, NamesContact)
            kept == SelectSeq(SubSeq(written.rows, 1, from_xml), NamesContact)
        IN  /\ from_xml >= 0
            /\ contact # << >>
            /\ IF keep_contact_information
               THEN [ i \in DOMAIN kept |-> kept[i]["FELTVERDI"] ]
                      = [ i \in DOMAIN contact |-> contact[i]["FELTVERDI"] ]
               ELSE kept = << >>
            /\ \A j \in 1..SidecarRowCount :
                 json_file.exists /\ json_file.valid =>
                     written.rows[from_xml + j]["FELTNAVN"] = json_file.content[j][1]

\* a table written without the contact person of the document, with the
\* other Kontakt row and the rows of the sidecar
C19_Witness ==
    /\ WrittenByParquet
    /\ ~keep_contact_information
    /\ json_file = JsonFile(SidecarDict)
    /\ \E i \in DOMAIN written.rows :
         written.rows[i]["FELTNAVN"] = Kontakt \o << "_" >> \o KeyB
    /\ written.rows[Len(written.rows)]["FELTNAVN"] = << "r", "e", "f" >>

\* no two rows of the table have the same key tuple
NoDuplicateKeys(rows) ==
    \A i, j \in DOMAIN rows :
        KeyTuple(rows[i], StoreKeys) = KeyTuple(rows[j], StoreKeys) => i = j

KeyPresent(row, rows) ==
    \E i \in DOMAIN rows : KeyTuple(rows[i], StoreKeys) = KeyTuple(row, StoreKeys)

\* C18: calls with batches of one row keep the table free of rows with the
\* same key tuple: a call inserts the batch row exactly when its key tuple
\* is not in the table, and calls insert not at all when it is, so a second
\* call with the same batch changes nothing
C18_NoDuplicateInsert ==
    /\ [](NoDuplicateKeys(database))
    /\ [][ LET row == data'.rows[1]
           IN  IF KeyPresent(row, database)
               THEN database' = database /\ insert_calls' = insert_calls
               ELSE /\ Len(database') = Len(database) + 1
                    /\ SubSeq(database', 1, Len(database)) = database
                    /\ \A c \in DOMAIN row : database'[Len(database')][c] = row[c]
                    /\ insert_calls' = insert_calls + 1 ]_vars

\* a table that grew by two inserts and then met a batch whose key it holds
C18_Witness ==
    /\ entry = "insert_or_save_data"
    /\ insert_calls = 2
    /\ Len(database) >= 2
    /\ KeyPresent(data.rows[1], SubSeq(database, 1, Len(database) - 1))
    /\ data.rows[1]["value"] # database[1]["value"]

RECURSIVE AncestorIndices(_, _)
\* for every leaf of a mapping, in document order, the occurrence indices of
\* the groups around it, the outermost group first: a group that occurs once
\* (a nested mapping) counts as occurrence 1, the k-th mapping of a repeated
\* group as occurrence k
AncestorIndices(node, indices) ==
    Concat([ i \in DOMAIN node.kids |->
        LET v == node.kids[i].v
        IN  CASE v.kind = "leaf" -> << indices >>
              [] v.kind = "map" -> AncestorIndices(v, indices \o << 1 >>)
              [] OTHER ->
                   Concat([ k \in DOMAIN v.kids |->
                       IF v.kids[k].kind = "map"
                       THEN AncestorIndices(v.kids[k], indices \o << k >>)
                       ELSE << indices >> ]) ])

\* the list of counter texts of a sequence of occurrence indices
CounterTexts(indices) == [ n \in DOMAIN indices |-> Str(indices[n]) ]

\* the same sequence, last element first
Reversed(seq) == [ n \in DOMAIN seq |-> seq[Len(seq) + 1 - n] ]

\* a call of isee_transform on the default tag list whose flattened paths are
\* all different, so that every leaf of SkjemaData has a row of its own
OneRowPerLeaf ==
    /\ IseeOnWellFormed
    /\ ~tag_list.some
    /\ pc = "checkbox"
    /\ Len(FormRows) = Len(AncestorIndices(SkjemaDoc, << >>))

\* C20 as stated: the counter list of a leaf gives the occurrence index of
\* its outermost repeated ancestor first and of its innermost one last
C20_OutermostFirst ==
    OneRowPerLeaf =>
        LET leaves == AncestorIndices(SkjemaDoc, << >>)
        IN  \A i \in DOMAIN leaves :
                final_df.rows[i]["COUNTER"] = PyList(CounterTexts(leaves[i]))

\* C20, amended: the counter list of a leaf holds one occurrence index per
\* group around the leaf, in the textual order of the markers in its
\* flattened path, which is innermost group first and outermost group last
C20_InnermostFirst ==
    OneRowPerLeaf =>
        LET leaves == AncestorIndices(SkjemaDoc, << >>)
        IN  \A i \in DOMAIN leaves :
                /\ final_df.rows[i]["COUNTER"] =
                       PyList(Reversed(CounterTexts(leaves[i])))
                /\ final_df.rows[i]["COUNTER"].val =
                       _extract_counter(FormRows[i]["FELTNAVN"])

\* a repeated group inside a repeated group: the first inner occurrence of
\* the second outer one and the second inner occurrence of the first outer one
C20_Witness ==
    /\ OneRowPerLeaf
    /\ \E i, j \in DOMAIN AncestorIndices(SkjemaDoc, << >>) :
         /\ AncestorIndices(SkjemaDoc, << >>)[i] = << 1, 2 >>
         /\ AncestorIndices(SkjemaDoc, << >>)[j] = << 2, 1 >>
         /\ final_df.rows[i]["COUNTER"] = PyList(<< << "2" >>, << "1" >> >>)
         /\ final_df.rows[j]["COUNTER"] = PyList(<< << "1" >>, << "2" >> >>)

RECURSIVE ListsHoldMappings(_)
\* every list of the document holds mappings only
ListsHoldMappings(node) ==
    CASE node.kind = "leaf" -> TRUE
      [] node.kind = "list" ->
           \A i \in DOMAIN node.kids :
               node.kids[i].kind = "map" /\ ListsHoldMappings(node.kids[i])
      [] OTHER -> \A i \in DOMAIN node.kids : ListsHoldMappings(node.kids[i].v)

\* isee_transform has just flattened the SkjemaData of a well-formed document
JustFlattened ==
    /\ IseeOnWellFormed
    /\ ~tag_list.some
    /\ pc = "metadata"
    /\ Get(xml_file.root, SkjemaData).kind = "map"
    /\ ListsHoldMappings(SkjemaDoc)

\* C21: when every list holds mappings only, no two leaves of a document
\* flatten to the same marked path, so the flattened output has one entry per
\* leaf, with the value of that leaf
C21_NoLeafLost ==
    JustFlattened =>
        /\ Len(final_df.rows) = Len(AncestorIndices(SkjemaDoc, << >>))
        /\ \A i, j \in DOMAIN final_df.rows :
               final_df.rows[i]["FELTNAVN"] = final_df.rows[j]["FELTNAVN"] => i = j

RECURSIVE EntriesOf(_, _, _)
\* what C22 and the marker rule ask of the flattening of a mapping: one
\* entry per leaf and one per list of scalars, in document order; the key is
\* the "_"-joined tag path behind one marker per mapping around the value,
\* the innermost first, and a list of scalars adds no marker and is the value
EntriesOf(node, markers, path) ==
    Concat([ i \in DOMAIN node.kids |->
        LET v == node.kids[i].v
            p == JoinPath(path, node.kids[i].k)
        IN  CASE v.kind = "leaf" -> << [key |-> markers \o p, value |-> v.val] >>
              [] v.kind = "map" -> EntriesOf(v, << "£", "1", "$" >> \o markers, p)
              [] \A n \in DOMAIN v.kids : v.kids[n].kind = "leaf" ->
                   << [key |-> markers \o p, value |-> v] >>
              [] OTHER ->
                   Concat([ n \in DOMAIN v.kids |->
                       EntriesOf(v.kids[n], << "£" >> \o Str(n) \o << "$" >> \o markers,
                                 p) ]) ])

\* C22: a key whose value is a list of scalars gets exactly one entry,
\* whatever the length of the list; its key carries no marker for the list
\* and its value is the whole list
C22_ScalarListOneEntry ==
    (entry = "_flatten_dict" /\ pc = "returned") =>
        LET entries == EntriesOf(argument, << >>, << >>)
        IN  /\ Len(return_value) = Len(entries)
            /\ \A i \in DOMAIN entries :
                   /\ return_value[i][1] = entries[i].key
                   /\ return_value[i][2] = entries[i].value

\* a list of three scalars beside a leaf: two entries, the second the list
C22_Witness ==
    /\ entry = "_flatten_dict"
    /\ pc = "returned"
    /\ argument = Map(<< Item(KeyB, Leaf(<< "y" >>)), Item(KeyA, ScalarList(3)) >>)
    /\ Len(return_value) = 2
    /\ return_value[2][1] = KeyA
    /\ return_value[2][2] = ScalarList(3)

\* the rows of the table handed to _add_interninfo_columns that pass the test
RowsWhere(Keep(_)) ==
    LET Kept(row) == Keep(row["FELTNAVN"])
    IN  SelectSeq(argument.rows, Kept)

NotTheMarker(name) == name # XsiNil
WithoutTheMarker(name) == \A i \in DOMAIN name : ~MatchAt(name, XsiNil, i)

\* C23 as stated: a row is dropped if and only if its name is exactly
\* "@xsi:nil"
C23_DropsExactNilOnly ==
    (entry = "_add_interninfo_columns" /\ pc = "returned") =>
        Len(return_value.rows) = Len(RowsWhere(NotTheMarker))

\* C23, amended: a row is dropped if and only if its name contains
\* "@xsi:nil"; the other rows are kept in their order
C23_DropsNamesHoldingNil ==
    (entry = "_add_interninfo_columns" /\ pc = "returned") =>
        LET kept == RowsWhere(WithoutTheMarker)
        IN  /\ Len(return_value.rows) = Len(kept)
            /\ \A i \in DOMAIN kept :
                   /\ return_value.rows[i]["FELTNAVN"] =
                          strip(StripMarkers(kept[i]["FELTNAVN"], 1))
                   /\ ~Contains(return_value.rows[i]["FELTNAVN"], XsiNil)

\* a table with a plain row and a row whose path ends in the marker: only
\* the plain row is returned
C23_Witness ==
    /\ entry = "_add_interninfo_columns"
    /\ pc = "returned"
    /\ Len(argument.rows) = 2
    /\ argument.rows[1]["FELTNAVN"] = << "£", "1", "$" >> \o KeyA \o Underscore \o XsiNil
    /\ argument.rows[2]["FELTNAVN"] = KeyA
    /\ Len(return_value.rows) = 1
    /\ return_value.rows[1]["FELTNAVN"] = KeyA

\* a call of isee_transform with a mapping, without checkbox variables and
\* without a sidecar, that has come past _add_lopenr
MappedAndSuffixed ==
    /\ IseeOnWellFormed
    /\ mapping.some
    /\ ~checkbox_vars.some
    /\ json_file = NoJsonFile
    /\ pc = "reorder"

\* the table of that call as _add_interninfo_columns returns it, before any
\* renaming and with the columns COUNTER and LEVELS
TableBeforeMapping ==
    _add_interninfo_columns(
        concat(_parse_tag_elements(xml_file.root, TagListInForce),
               _make_angiver_row_df(file_path)),
        Get(xml_file.root, InternInfo), file_path)

\* the name a mapping gives to a name
Renamed(name) == IF name \in DOMAIN mapping.val THEN mapping.val[name] ELSE name

\* C24 as stated: the keys of the mapping are matched against the names with
\* their running-number suffix
C24_MappingAfterSuffix ==
    MappedAndSuffixed =>
        LET suffixed == _add_lopenr(TableBeforeMapping)
        IN  /\ Len(final_df.rows) = Len(suffixed.rows)
            /\ \A i \in DOMAIN suffixed.rows :
                   final_df.rows[i]["FELTNAVN"] = Renamed(suffixed.rows[i]["FELTNAVN"])

\* C24, amended: the keys of the mapping are matched against the names
\* without suffix, and the running-number suffix of a row is appended to the
\* name the mapping gave it
C24_MappingBeforeSuffix ==
    MappedAndSuffixed =>
        LET plain == TableBeforeMapping
            suffixed == _add_lopenr(plain)
        IN  /\ Len(final_df.rows) = Len(plain.rows)
            /\ \A i \in DOMAIN plain.rows :
                   final_df.rows[i]["FELTNAVN"] =
                       Renamed(plain.rows[i]["FELTNAVN"])
                         \o Drop(suffixed.rows[i]["FELTNAVN"],
                                 Len(plain.rows[i]["FELTNAVN"]) + 1)

\* the key a_b renames both occurrences of the repeated field a_b, to c_001
\* and c_002
C24_Witness ==
    /\ MappedAndSuffixed
    /\ KeyAB \in DOMAIN mapping.val
    /\ SkjemaDoc = FixtureRepeated
    /\ ~tag_list.some
    /\ final_df.rows[1]["FELTNAVN"] = << "c", "_", "0", "0", "1" >>
    /\ final_df.rows[2]["FELTNAVN"] = << "c", "_", "0", "0", "2" >>

\* the key a_b_001 renames nothing: the first occurrence keeps the name
\* a_b_001
C24_SuffixedKeyWitness ==
    /\ MappedAndSuffixed
    /\ (KeyAB \o << "_", "0", "0", "1" >>) \in DOMAIN mapping.val
    /\ SkjemaDoc = FixtureRepeated
    /\ ~tag_list.some
    /\ final_df.rows[1]["FELTNAVN"] = KeyAB \o << "_", "0", "0", "1" >>

\* the part of a path up to and with its last "/", empty when it has none
DirectoryOf(path) ==
    LET slashes == { i \in DOMAIN path : path[i] = "/" }
    IN  IF slashes = {} THEN << >>
        ELSE SubSeq(path, 1, CHOOSE i \in slashes : \A j \in slashes : j <= i)

\* the part of a path after its last "/"
FileNameOf(path) == Drop(path, Len(DirectoryOf(path)) + 1)

\* C25: the sidecar path has the directory part of the XML path, and its
\* file name is that of the XML path with form_ replaced by meta_ and .xml
\* by .json
C25_SidecarBesideForm ==
    (entry = "_read_json_meta" /\ pc = "returned") =>
        /\ DirectoryOf(return_value) = DirectoryOf(argument)
        /\ FileNameOf(return_value) =
               ReplaceAll(ReplaceAll(FileNameOf(argument), form_, meta_), DotXml, DotJson)

\* the least element of a non-empty set of numbers
Least(S) == CHOOSE i \in S : \A j \in S : i <= j

\* C26: _extract_angiver_id returns the text between the first "/form_" of
\* the path and the first ".xml" behind it, and None when the path has no
\* "/form_" or no ".xml" behind it
C26_AngiverIdBetweenMarkers ==
    (entry = "_extract_angiver_id" /\ pc = "returned") =>
        LET forms == { i \in DOMAIN argument : MatchAt(argument, FORM_STRING, i) }
            first == Least(forms) + Len(FORM_STRING)
            xmls == { j \in DOMAIN argument : j >= first /\ MatchAt(argument, DotXml, j) }
        IN  /\ raised = NoException
            /\ return_value =
                   IF forms = {} \/ xmls = {} THEN None
                   ELSE SubSeq(argument, first, Least(xmls) - 1)

\* a path with nothing between "/form_" and ".xml": the empty text, not None
C26_Witness ==
    /\ entry = "_extract_angiver_id"
    /\ pc = "returned"
    /\ argument = << "d", "/", "f", "o", "r", "m", "_", ".", "x", "m", "l" >>
    /\ return_value = << >>
    /\ return_value # None

\* the digits between the "." and the final "Z" of a timestamp, none when it
\* has no "."
FractionOf(timestamp) ==
    IF Len(timestamp) > Len(DateTime) + 1
    THEN SubSeq(timestamp, Len(DateTime) + 2, Len(timestamp) - 1)
    ELSE << >>

\* C27: a UTC timestamp ending in "Z" comes back with exactly six digits of
\* fraction, which are its own digits followed by zeros or its first six
\* digits; the date, the time and the "Z" are unchanged
C27_SixDigitFraction ==
    (/\ entry = "_pad_microseconds_to_six"
     /\ pc # "call"
     /\ argument[Len(argument)] = "Z") =>
        LET fraction == FractionOf(argument)
        IN  /\ pc = "returned"
            /\ Len(return_value) = Len(DateTime) + 8
            /\ SubSeq(return_value, 1, Len(DateTime)) = DateTime
            /\ return_value[Len(DateTime) + 1] = "."
            /\ \A i \in 1..6 :
                   return_value[Len(DateTime) + 1 + i] =
                       IF i <= Len(fraction) THEN fraction[i] ELSE "0"
            /\ return_value[Len(return_value)] = "Z"

\* a fraction of nine digits cut to six
C27_Witness ==
    /\ entry = "_pad_microseconds_to_six"
    /\ pc = "returned"
    /\ argument = DateTime \o << ".", "7", "0", "7", "0", "7", "0", "7", "7", "7", "Z" >>
    /\ return_value = DateTime \o << ".", "7", "0", "7", "0", "7", "0", "Z" >>

RECURSIVE TrailsOf(_, _, _)
\* for every leaf of a mapping, in document order: its "_"-joined tag path
\* and the groups around it from the outermost on, each with its occurrence
\* index and whether it is repeated (an element of a list)
TrailsOf(node, prefix, trail) ==
    Concat([ i \in DOMAIN node.kids |->
        LET v == node.kids[i].v
            p == JoinPath(prefix, node.kids[i].k)
        IN  CASE v.kind = "leaf" -> << [name |-> p, trail |-> trail] >>
              [] v.kind = "map" ->
                   TrailsOf(v, p, Append(trail, [n |-> 1, repeated |-> FALSE]))
              [] OTHER ->
                   Concat([ k \in DOMAIN v.kids |->
                       TrailsOf(v.kids[k], p,
                                Append(trail, [n |-> k, repeated |-> TRUE])) ]) ])

\* the repeated groups around a leaf
RepeatedIn(trail) ==
    LET Repeated(group) == group.repeated
    IN  SelectSeq(trail, Repeated)

\* isee_transform has come past _add_lopenr on the default tag list with the
\* names left as the Counter Resolver made them, one row per leaf
ResolvedOneRowPerLeaf ==
    /\ IseeOnWellFormed
    /\ ~tag_list.some
    /\ NamesAreFinal
    /\ pc = "reorder"
    /\ SkjemaDoc.kind = "map"
    /\ ListsHoldMappings(SkjemaDoc)
    /\ Len(FormRows) = Len(TrailsOf(SkjemaDoc, << >>, << >>))

\* C28: a leaf with exactly one repeated group around it, whatever mappings
\* lie around or inside that group, is named by its tag path and "_" and the
\* occurrence index of the group padded to three digits
C28_OccurrenceSuffix ==
    ResolvedOneRowPerLeaf =>
        LET leaves == TrailsOf(SkjemaDoc, << >>, << >>)
        IN  \A i \in DOMAIN leaves :
                Len(RepeatedIn(leaves[i].trail)) = 1 =>
                    final_df.rows[i]["FELTNAVN"] =
                        leaves[i].name \o Underscore
                          \o Pad3(Str(RepeatedIn(leaves[i].trail)[1].n))

\* C29: a call of isee_transform on the default tag list and without a
\* sidecar that has passed _validate_file raises nothing afterwards
C29_ValidatedNeverRaises ==
    [][(/\ entry = "isee_transform"
        /\ ~tag_list.some
        /\ json_file = NoJsonFile
        /\ pc # "validate") => pc' # "raised"]_vars

RECURSIVE LeafTextsOf(_, _)
\* the leaves below an element in document order, each with its "_"-joined
\* tag path below the root and its text
LeafTextsOf(element, prefix) ==
    Concat([ i \in DOMAIN element.kids |->
        LET p == JoinPath(prefix, element.kids[i].k)
        IN  IF Len(element.kids[i].v.kids) > 0
            THEN LeafTextsOf(element.kids[i].v, p)
            ELSE << [path |-> p, text |-> element.kids[i].v.val] >> ])

\* the texts of the leaves with the tag path p, in document order
TextsAt(leaves, p) ==
    LET At(leaf) == leaf.path = p
        hits == SelectSeq(leaves, At)
    IN  [ i \in DOMAIN hits |-> hits[i].text ]

\* C30: for a leaf tag path that occurs n >= 2 times the dictionary holds
\* the keys <path>_1 ... <path>_n with the n texts in document order, and no
\* key <path>
C30_NumberedOccurrences ==
    (entry = "traverse_xml" /\ pc = "returned") =>
        LET leaves == LeafTextsOf(argument, << >>)
        IN  \A l \in DOMAIN leaves :
                LET texts == TextsAt(leaves, leaves[l].path)
                    Key(i) == leaves[l].path \o Underscore \o Str(i)
                IN  Len(texts) >= 2 =>
                        /\ ~DictHas(return_value, leaves[l].path)
                        /\ ~DictHas(return_value, Key(Len(texts) + 1))
                        /\ \A i \in DOMAIN texts :
                               /\ DictHas(return_value, Key(i))
                               /\ DictGet(return_value, Key(i)) = PyStr(texts[i])

====
